---- MODULE Spec2Model ----
(***************************************************************************)
(* The translation cache of DiscordTranslator: translate() of gemini.ts    *)
(* over the three tables of mysql.ts (translation_history, discord_user,   *)
(* history).  Every db.execute statement and the external model call is    *)
(* one atomic step of the calling request; requests are asynchronous       *)
(* tasks, so the steps of different requests interleave.                   *)
(***************************************************************************)
EXTENDS Integers, Sequences, FiniteSets, TLC

\* ---------------------------------------------------------------- bounds

\* Number of exported calls (translate, saveTranslationToHistory, ...) started.
MaxCalls == 2
\* The clock (CURRENT_TIMESTAMP, in days) runs from 0 to MaxTime.
MaxTime == 1
\* The longest text hashMessage is applied to on its own.
MaxLen == 3

\* The concurrently running requests.
Procs == {"p1", "p2"}

\* ----------------------------------------------------------------- texts
\* A text is a sequence of characters.

\* The (message, language) pairs callers submit: the same text and language,
\* once plain and once in another case and with trailing whitespace.
Requests == { << <<"H", "i">>, <<"e", "s">> >>,
              << <<"h", "i", " ">>, <<"E", "s">> >> }
\* A text the model may give back as original_message instead of the message.
Strays == { <<"y", "o">> }
\* Who calls: (discordId, username), "" for a missing (undefined) one.
Callers == { <<"", "">>, <<"u1", "ann">>, <<"u1", "">> }
DiscordIds == { c[1] : c \in Callers } \ { "" }
Translations == { <<"o", "l", "a">> }
DaysOld == { 0, 1 }

\* A JSON field that is missing from the reply (undefined).
AbsentText == << "<absent>" >>
Absent == "<absent>"

LowerOf(c) ==
  CASE c = "H" -> "h"
    [] c = "E" -> "e"
    [] c = "Y" -> "y"
    [] OTHER -> c

toLowerCase(s) == [i \in 1..Len(s) |-> LowerOf(s[i])]

RECURSIVE trimStart(_)
trimStart(s) ==
  IF s # <<>> /\ Head(s) = " " THEN trimStart(Tail(s)) ELSE s

RECURSIVE trimEnd(_)
trimEnd(s) ==
  IF s # <<>> /\ s[Len(s)] = " " THEN trimEnd(SubSeq(s, 1, Len(s) - 1)) ELSE s

trim(s) == trimEnd(trimStart(s))

CharCode(c) ==
  CASE c = " " -> 1
    [] c = "h" -> 2
    [] c = "i" -> 3
    [] c = "y" -> 4
    [] c = "o" -> 5
    [] c = "H" -> 6
    [] c = "E" -> 7
    [] c = "e" -> 8
    [] c = "s" -> 9
    [] c = "Y" -> 10
    [] OTHER -> 11

\* SHA-256 of the bytes, as a collision-free encoding of the byte sequence.
RECURSIVE Digest(_)
Digest(s) == IF s = <<>> THEN 0 ELSE CharCode(Head(s)) + 12 * Digest(Tail(s))

\* (mutant) the message is hashed as submitted
hashMessageRaw(message) == Digest(message)

\* (mutant) the message is lower-cased and not trimmed
hashMessageUntrimmed(message) == Digest(toLowerCase(message))

hashMessage(message) == Digest(trim(toLowerCase(message)))

\* Equality of two VARCHAR values under utf8mb4_unicode_ci: case-insensitive,
\* trailing spaces ignored (PAD SPACE).
SqlEq(a, b) == trimEnd(toLowerCase(a)) = trimEnd(toLowerCase(b))

\* ----------------------------------------------------------------- state

VARIABLES
  translation_history,  \* set of rows of table translation_history
  discord_user,         \* set of rows of table discord_user
  history,              \* set of rows of table history (the usage links)
                        \* (the timestamps of discord_user and history,
                        \* which no statement modelled here reads, are left out)
  nextMessageId,        \* AUTO_INCREMENT of translation_history.id
  nextHistoryId,        \* AUTO_INCREMENT of history.id
  now,                  \* CURRENT_TIMESTAMP
  pool,                 \* the module variable pool of mysql.ts: the pool in
                        \* use (0 for null) and the pools created so far
  calls,                \* number of calls started so far
  pc,                   \* pc[p]: the statement request p is about to run
  call,                 \* call[p]: the exported function p runs, its arguments
  sv,                   \* sv[p]: the arguments of saveTranslationToHistory
  cached,               \* cached[p]: rows[0] of getTranslationFromHistory
  existing,             \* existing[p]: existing[0].id of save, 0 when none
  insertId,             \* insertId[p]: result.insertId of save's INSERT
  response,             \* response[p]: the model's reply, once received
  returned,             \* the call that finished last, and what it returned
                        \* or threw
  interaction,          \* interaction[p]: the interaction whose background
                        \* task p runs, and what its translate came to
  sent                  \* the HTTP responses and follow-up messages sent so
                        \* far, in order

vars == << translation_history, discord_user, history, nextMessageId,
           nextHistoryId, now, pool, calls, pc, call, sv, cached, existing,
           insertId, response, returned, interaction, sent >>

store == << translation_history, discord_user, history, nextMessageId,
            nextHistoryId >>

\* pool before initMySQLPool, and as the server has it once line 149 of
\* gemini.ts has run.
NoPool == [ current |-> 0, created |-> 0 ]
PoolInitialized == [ current |-> 1, created |-> 1 ]

NoRow == [ id |-> 0 ]
NoReply == [ form |-> "none" ]
NoOutcome == [ kind |-> "none" ]
NoCall == [ op |-> "none" ]
NoSave == [ originalMessage |-> <<>> ]
NoInteraction == [ token |-> 0 ]

\* The tables as initDatabase creates them: empty.
Init ==
  /\ translation_history = {}
  /\ discord_user = {}
  /\ history = {}
  /\ nextMessageId = 1
  /\ nextHistoryId = 1
  /\ now = 0
  /\ pool = PoolInitialized
  /\ calls = 0
  /\ pc = [p \in Procs |-> "idle"]
  /\ call = [p \in Procs |-> NoCall]
  /\ sv = [p \in Procs |-> NoSave]
  /\ cached = [p \in Procs |-> NoRow]
  /\ existing = [p \in Procs |-> 0]
  /\ insertId = [p \in Procs |-> 0]
  /\ response = [p \in Procs |-> NoReply]
  /\ returned = [ call |-> NoCall, outcome |-> NoOutcome ]
  /\ interaction = [p \in Procs |-> NoInteraction]
  /\ sent = <<>>

\* ------------------------------------------------------- the model's reply
\* response.text as the parser sees it: whether it is wrapped in ``` fences,
\* its syntax (strict JSON, JSON with unquoted keys, neither) and the value a
\* successful parse yields.

JsonObject(om, tm, dl) ==
  [ t |-> "object", original_message |-> om, translated_message |-> tm,
    detected_language |-> dl ]
JsonNumber == [ t |-> "number", original_message |-> AbsentText,
                translated_message |-> AbsentText, detected_language |-> Absent ]
JsonNull == [ t |-> "null", original_message |-> AbsentText,
              translated_message |-> AbsentText, detected_language |-> Absent ]

Text(fence, form, value) == [ fence |-> fence, form |-> form, value |-> value ]

\* The replies the external model may give to a request for `message`.
RepliesFor(message) ==
  { Text(FALSE, "json", JsonObject(om, tm, "en")) :
      om \in {message} \cup Strays, tm \in Translations }
  \cup { Text(TRUE, "bare", JsonObject(message, tm, "en")) : tm \in Translations }
  \cup { Text(FALSE, "json", JsonObject(message, AbsentText, Absent)) }
  \cup { Text(FALSE, "json", JsonNumber),
         Text(FALSE, "json", JsonNull),
         Text(FALSE, "junk", JsonNull) }

\* rawText.replace(/```json|```/g, "").trim()
stripFences(text) == [ text EXCEPT !.fence = FALSE ]

\* JSON.parse: does it return, and what
parses(text) == ~text.fence /\ text.form = "json"

\* cleanedText.replace(/(['"])?([a-zA-Z0-9_]+)\1?\s*:/g, '"$2":')
repairKeys(text) ==
  IF text.form = "bare" THEN [ text EXCEPT !.form = "json" ] ELSE text

\* The two parse attempts: "ok" with jsonResponse, or "failed".
parseResponse(text) ==
  LET cleanedText == stripFences(text)
      repaired == repairKeys(cleanedText)
  IN  IF parses(cleanedText) THEN [ ok |-> TRUE, json |-> cleanedText.value ]
      ELSE IF parses(repaired) THEN [ ok |-> TRUE, json |-> repaired.value ]
      ELSE [ ok |-> FALSE, json |-> JsonNull ]

\* x ?? y for a text field
OrElse(x, y) == IF x = AbsentText THEN y ELSE x

\* (mutant) the fields of jsonResponse are taken as they are
resultOfUndefaulted(json, message) ==
  [ kind |-> "result",
    original_message |-> json.original_message,
    translated_message |-> json.translated_message,
    detected_language |-> json.detected_language,
    from_cache |-> FALSE ]

\* The result object of translate, from jsonResponse and the input message.
resultOf(json, message) ==
  [ kind |-> "result",
    original_message |-> OrElse(json.original_message, message),
    translated_message |-> OrElse(json.translated_message, message),
    detected_language |->
      IF json.detected_language = Absent THEN "unknown"
      ELSE json.detected_language,
    from_cache |-> FALSE ]

\* ------------------------------------------------------------- the tables

\* WHERE original_message_hash = ? AND target_language = ?
Matching(messageHash, targetLanguage) ==
  { r \in translation_history :
      /\ r.original_message_hash = messageHash
      /\ SqlEq(r.target_language, targetLanguage) }

\* (mutant) the SELECT has no ORDER BY
FirstOfAny(rows) == rows

\* ORDER BY use_count DESC, updated_at DESC LIMIT 1: the rows that may come first
FirstByUse(rows) ==
  { r \in rows : \A o \in rows :
      \/ r.use_count > o.use_count
      \/ r.use_count = o.use_count /\ r.updated_at >= o.updated_at }

\* (mutant) any profile counts as the user's
HasUserAny(discordId) == discord_user # {}

HasUser(discordId) == \E u \in discord_user : u.id = discordId

\* (mutant) history.message_id has no foreign key
HasMessageUnchecked(id) == TRUE

HasMessage(id) == \E r \in translation_history : r.id = id

\* (mutant) the user id alone makes a call attributed
AttributedById(a) == a.discordId # ""

\* if (discordId && username)
Attributed(a) == a.discordId # "" /\ a.username # ""

\* The local variables of a running call.
locals == << sv, cached, existing, insertId, response >>

\* The call returns or throws `o`; its local variables are gone.  Called by
\* the background task of an interaction, it returns or throws to the task.
Finished(p, o) ==
  /\ pc' = [pc EXCEPT ![p] =
              IF interaction[p] = NoInteraction THEN "idle" ELSE "followUp"]
  /\ interaction' =
       [interaction EXCEPT ![p] =
          IF @ = NoInteraction THEN @ ELSE [ @ EXCEPT !.outcome = o ]]
  /\ UNCHANGED sent
  /\ returned' = [ call |-> call[p], outcome |-> o ]
  /\ call' = [call EXCEPT ![p] = NoCall]
  /\ sv' = [sv EXCEPT ![p] = NoSave]
  /\ cached' = [cached EXCEPT ![p] = NoRow]
  /\ existing' = [existing EXCEPT ![p] = 0]
  /\ insertId' = [insertId EXCEPT ![p] = 0]
  /\ response' = [response EXCEPT ![p] = NoReply]

\* The call goes on to its statement `next`.
Goto(p, next) ==
  /\ pc' = [pc EXCEPT ![p] = next]
  /\ UNCHANGED << call, returned, interaction, sent >>

StoreError(at) == [ kind |-> "error", error |-> "store", at |-> at ]
Void == [ kind |-> "void" ]

Free(p) == pc[p] = "idle" /\ calls < MaxCalls

\* A call starts: op(message, language, discordId, username).
Called(op, m, l, c) ==
  [ op |-> op, message |-> m, language |-> l, discordId |-> c[1],
    username |-> c[2] ]

\* getPool(): if (!pool) throw
poolMissing == pool.current = 0

\* The operation's getPool() returns, and the call goes on.
Begin(p, op, m, l, c) ==
  /\ ~poolMissing
  /\ calls' = calls + 1
  /\ call' = [call EXCEPT ![p] = Called(op, m, l, c)]
  /\ UNCHANGED << interaction, sent >>

\* ---------------------------------------------------------------- actions

\* translate(message, language, discordId, username) is called.
TranslateCall(p) ==
  /\ Free(p)
  /\ \E r \in Requests, c \in Callers :
       Begin(p, "translate", r[1], r[2], c)
  /\ pc' = [pc EXCEPT ![p] = "lookupSelect"]
  /\ UNCHANGED returned
  /\ UNCHANGED << store, now, pool, locals >>

\* getTranslationFromHistory(message, targetLanguage) is called directly.
LookupCall(p) ==
  /\ Free(p)
  /\ \E r \in Requests : Begin(p, "lookup", r[1], r[2], <<"", "">>)
  /\ pc' = [pc EXCEPT ![p] = "lookupSelect"]
  /\ UNCHANGED returned
  /\ UNCHANGED << store, now, pool, locals >>

\* getTranslationFromHistory returns null
Null == [ kind |-> "null" ]

\* getTranslationFromHistory: the SELECT ... ORDER BY ... LIMIT 1.  With no
\* row it returns null: translate goes on to the model.
LookupSelect(p) ==
  /\ pc[p] = "lookupSelect"
  /\ LET rows == Matching(hashMessage(call[p].message),
                          toLowerCase(call[p].language))
     IN  IF rows # {}
         THEN /\ \E row \in FirstByUse(rows) :
                   cached' = [cached EXCEPT ![p] = row]
              /\ Goto(p, "lookupUpdate")
              /\ UNCHANGED << sv, existing, insertId, response >>
         ELSE IF call[p].op = "lookup"
         THEN Finished(p, Null)
         ELSE Goto(p, "model") /\ UNCHANGED locals
  /\ UNCHANGED << store, now, pool, calls >>

\* The TranslationResult translate makes of a cached row.
cachedResult(row) ==
  [ kind |-> "result",
    original_message |-> row.original_message,
    translated_message |-> row.translated_message,
    detected_language |->
      IF row.detected_language = "" THEN "unknown" ELSE row.detected_language,
    from_cache |-> TRUE ]

\* (mutant) the UPDATE refreshes updated_at and forgets use_count
incrementUseForgotten(id) ==
  { IF r.id = id THEN [ r EXCEPT !.updated_at = now ] ELSE r :
      r \in translation_history }

\* (mutant) the UPDATE starts the count again
incrementUseReset(id) ==
  { IF r.id = id
    THEN [ r EXCEPT !.use_count = 1, !.updated_at = now ]
    ELSE r : r \in translation_history }

\* UPDATE translation_history SET use_count = use_count + 1,
\* updated_at = CURRENT_TIMESTAMP WHERE id = ?
incrementUse(id) ==
  { IF r.id = id
    THEN [ r EXCEPT !.use_count = r.use_count + 1, !.updated_at = now ]
    ELSE r : r \in translation_history }

\* getTranslationFromHistory: the UPDATE, and the return of the row read.
LookupUpdate(p) ==
  /\ pc[p] = "lookupUpdate"
  /\ translation_history' = incrementUse(cached[p].id)
  /\ Finished(p, IF call[p].op = "lookup"
                 THEN [ kind |-> "row", row |-> cached[p] ]
                 ELSE cachedResult(cached[p]))
  /\ UNCHANGED << discord_user, history, nextMessageId, nextHistoryId, now, pool,
                  calls >>

\* The arguments translate passes to saveTranslationToHistory.
saveArgs(result, c) ==
  [ originalMessage |-> result.original_message,
    targetLanguage |-> c.language,
    detectedLanguage |-> result.detected_language,
    translatedMessage |-> result.translated_message,
    discordId |-> c.discordId,
    username |-> c.username ]

\* ai.models.generateContent returns; the reply is parsed and
\* saveTranslationToHistory is called with the result.
ModelReply(p) ==
  /\ pc[p] = "model"
  /\ \E text \in RepliesFor(call[p].message) :
       LET parsed == parseResponse(text)
       IN  IF ~parsed.ok
           THEN Finished(p, [ kind |-> "error", error |-> "parse",
                              raw |-> text ])
           ELSE IF parsed.json.t = "null"
           THEN \* reading jsonResponse.original_message of null
                Finished(p, [ kind |-> "error", error |-> "TypeError" ])
           ELSE /\ sv' = [sv EXCEPT ![p] =
                     saveArgs(resultOf(parsed.json, call[p].message), call[p])]
                /\ response' = [response EXCEPT ![p] = text]
                /\ Goto(p, "saveSelect")
                /\ UNCHANGED << cached, existing, insertId >>
  /\ UNCHANGED << store, now, pool, calls >>

\* saveTranslationToHistory(originalMessage, targetLanguage, detectedLanguage,
\* translatedMessage, discordId, username) is called directly.
SaveCall(p) ==
  /\ Free(p)
  /\ \E r \in Requests, t \in Translations, c \in Callers :
       /\ Begin(p, "save", r[1], r[2], c)
       /\ sv' = [sv EXCEPT ![p] =
            [ originalMessage |-> r[1], targetLanguage |-> r[2],
              detectedLanguage |-> "en", translatedMessage |-> t,
              discordId |-> c[1], username |-> c[2] ]]
  /\ pc' = [pc EXCEPT ![p] = "saveSelect"]
  /\ UNCHANGED returned
  /\ UNCHANGED << store, now, pool, cached, existing, insertId, response >>

\* save: SELECT id FROM translation_history WHERE hash = ? AND language = ?
SaveSelect(p) ==
  /\ pc[p] = "saveSelect"
  /\ LET rows == Matching(hashMessage(sv[p].originalMessage),
                          toLowerCase(sv[p].targetLanguage))
     IN  IF rows = {}
         THEN /\ Goto(p, "saveInsert")
              /\ UNCHANGED existing
         ELSE /\ \E row \in rows : existing' = [existing EXCEPT ![p] = row.id]
              /\ Goto(p, "saveUpdate")
  /\ UNCHANGED << store, now, pool, calls, sv, cached, insertId, response >>

\* What saveTranslationToHistory's caller gets when it returns: translate
\* returns its result, a direct call nothing.
Returned(p) ==
  IF call[p].op = "translate"
  THEN [ kind |-> "result",
         original_message |-> sv[p].originalMessage,
         translated_message |-> sv[p].translatedMessage,
         detected_language |-> sv[p].detectedLanguage,
         from_cache |-> FALSE ]
  ELSE Void

\* (mutant) the UPDATE stamps created_at as well
updateEntryRecreated(id, a) ==
  { IF r.id = id
    THEN [ r EXCEPT !.translated_message = a.translatedMessage,
                    !.detected_language = a.detectedLanguage,
                    !.use_count = r.use_count + 1,
                    !.created_at = now,
                    !.updated_at = now ]
    ELSE r : r \in translation_history }

\* UPDATE translation_history SET translated_message = ?,
\* detected_language = ?, use_count = use_count + 1, updated_at = ... WHERE id = ?
updateEntry(id, a) ==
  { IF r.id = id
    THEN [ r EXCEPT !.translated_message = a.translatedMessage,
                    !.detected_language = a.detectedLanguage,
                    !.use_count = r.use_count + 1,
                    !.updated_at = now ]
    ELSE r : r \in translation_history }

\* save: the UPDATE of the existing entry
SaveUpdate(p) ==
  /\ pc[p] = "saveUpdate"
  /\ translation_history' = updateEntry(existing[p], sv[p])
  /\ IF Attributed(sv[p])
     THEN Goto(p, "saveUser") /\ UNCHANGED locals
     ELSE Finished(p, Returned(p))
  /\ UNCHANGED << discord_user, history, nextMessageId, nextHistoryId, now, pool,
                  calls >>

\* (mutant) the row starts with use_count 0
newEntryUncounted(a) ==
  [ id |-> nextMessageId,
    original_message |-> a.originalMessage,
    original_message_hash |-> hashMessage(a.originalMessage),
    target_language |-> toLowerCase(a.targetLanguage),
    detected_language |-> a.detectedLanguage,
    translated_message |-> a.translatedMessage,
    created_at |-> now,
    updated_at |-> now,
    use_count |-> 0 ]

\* The row INSERT INTO translation_history (original_message,
\* original_message_hash, target_language, detected_language,
\* translated_message) VALUES (...) adds.
newEntry(a) ==
  [ id |-> nextMessageId,
    original_message |-> a.originalMessage,
    original_message_hash |-> hashMessage(a.originalMessage),
    target_language |-> toLowerCase(a.targetLanguage),
    detected_language |-> a.detectedLanguage,
    translated_message |-> a.translatedMessage,
    created_at |-> now,
    updated_at |-> now,
    use_count |-> 1 ]

\* save: the INSERT of a new entry
SaveInsert(p) ==
  /\ pc[p] = "saveInsert"
  /\ translation_history' = translation_history \cup { newEntry(sv[p]) }
  /\ nextMessageId' = nextMessageId + 1
  /\ IF Attributed(sv[p])
     THEN /\ insertId' = [insertId EXCEPT ![p] = nextMessageId]
          /\ Goto(p, "saveUser")
          /\ UNCHANGED << sv, cached, existing, response >>
     ELSE Finished(p, Returned(p))
  /\ UNCHANGED << discord_user, history, nextHistoryId, now, pool, calls >>

\* INSERT INTO discord_user (id, username) VALUES (?, ?)
\* ON DUPLICATE KEY UPDATE username = ?, updated_at = CURRENT_TIMESTAMP
saveDiscordUser(discordId, username) ==
  IF HasUser(discordId)
  THEN { IF u.id = discordId
         THEN [ u EXCEPT !.username = username ]
         ELSE u : u \in discord_user }
  ELSE discord_user \cup
         { [ id |-> discordId, username |-> username ] }

\* save: await saveDiscordUser(discordId, username), on either branch
SaveUser(p) ==
  /\ pc[p] = "saveUser"
  /\ discord_user' = saveDiscordUser(sv[p].discordId, sv[p].username)
  /\ Goto(p, IF existing[p] = 0 THEN "linkInsert" ELSE "linkSelect")
  /\ UNCHANGED << translation_history, history, nextMessageId, nextHistoryId,
                  now, pool, calls, locals >>

\* The cache row the link is for: result.insertId or existingRow.id
LinkTarget(p) == IF existing[p] = 0 THEN insertId[p] ELSE existing[p]

\* (mutant) the check for an existing link is left out
linkExistsUnchecked(discordId, messageId) == {}

\* SELECT id FROM history WHERE discord_id = ? AND message_id = ?
linkExists(discordId, messageId) ==
  { h \in history : h.discord_id = discordId /\ h.message_id = messageId }

\* save: the check whether the user-message link exists
LinkSelect(p) ==
  /\ pc[p] = "linkSelect"
  /\ IF linkExists(sv[p].discordId, existing[p]) = {}
     THEN Goto(p, "linkInsert") /\ UNCHANGED locals
     ELSE Finished(p, Returned(p))
  /\ UNCHANGED << store, now, pool, calls >>

\* save: INSERT INTO history (discord_id, message_id) VALUES (?, ?); a foreign
\* key without its parent row makes the statement fail.
LinkInsert(p) ==
  /\ pc[p] = "linkInsert"
  /\ IF HasUser(sv[p].discordId) /\ HasMessage(LinkTarget(p))
     THEN /\ history' = history \cup
               { [ id |-> nextHistoryId, discord_id |-> sv[p].discordId,
                   message_id |-> LinkTarget(p) ] }
          /\ nextHistoryId' = nextHistoryId + 1
          /\ Finished(p, Returned(p))
     ELSE /\ Finished(p, StoreError("linkInsert"))
          /\ UNCHANGED << history, nextHistoryId >>
  /\ UNCHANGED << translation_history, discord_user, nextMessageId, now, pool,
                  calls >>

\* The statements of the store a call may be about to run.
StoreStatements ==
  { "lookupSelect", "lookupUpdate", "saveSelect", "saveUpdate", "saveInsert",
    "saveUser", "linkSelect", "linkInsert", "deleteUser" }

\* (mutant) a failed link write takes the profile written before it back
StatementFailsUndone(p) ==
  /\ pc[p] \in StoreStatements
  /\ Finished(p, StoreError(pc[p]))
  /\ discord_user' = IF pc[p] = "linkInsert"
                      THEN { u \in discord_user : u.id # sv[p].discordId }
                      ELSE discord_user
  /\ UNCHANGED << translation_history, history, nextMessageId, nextHistoryId,
                  now, pool, calls >>

\* db.execute throws (connection lost, server gone, ...): nothing is written
\* and the rejection propagates through every await up to the caller.
StatementFails(p) ==
  /\ pc[p] \in StoreStatements
  /\ Finished(p, StoreError(pc[p]))
  /\ UNCHANGED << store, now, pool, calls >>

\* (mutant) the purge does not look at use_count
isStaleAnyUse(r, daysOld) == r.created_at < now - daysOld

\* WHERE created_at < DATE_SUB(NOW(), INTERVAL ? DAY) AND use_count = 1
isStale(r, daysOld) == r.created_at < now - daysOld /\ r.use_count = 1

\* cleanOldTranslations(daysOld): DELETE FROM translation_history WHERE
\* created_at < NOW() - daysOld AND use_count = 1; the history rows of a
\* deleted message go with it (ON DELETE CASCADE).
CleanOldTranslations(p) ==
  /\ Free(p)
  /\ ~poolMissing
  /\ \E daysOld \in DaysOld :
       LET old == { r \in translation_history : isStale(r, daysOld) }
       IN  /\ translation_history' = translation_history \ old
           /\ history' =
                { h \in history : \A r \in old : h.message_id # r.id }
           /\ returned' =
                [ call |-> [ op |-> "clean", daysOld |-> daysOld ],
                  outcome |-> [ kind |-> "count",
                                affectedRows |-> Cardinality(old) ] ]
  /\ calls' = calls + 1
  /\ UNCHANGED << discord_user, nextMessageId, nextHistoryId, now, pool, pc, call,
                  locals, interaction, sent >>

\* (mutant) the DELETE has no WHERE clause
linksOfAnyone(discordId) == history

\* FROM history WHERE discord_id = ?
linksOf(discordId) == { h \in history : h.discord_id = discordId }

\* deleteUserData(discordId): DELETE FROM history WHERE discord_id = ?
DeleteUserData(p) ==
  /\ Free(p)
  /\ \E d \in DiscordIds :
       LET mine == linksOf(d)
       IN  /\ history' = history \ mine
           /\ Begin(p, "delete", <<>>, <<>>, <<d, "">>)
           /\ existing' = [existing EXCEPT ![p] = Cardinality(mine)]
  /\ pc' = [pc EXCEPT ![p] = "deleteUser"]
  /\ UNCHANGED << translation_history, discord_user, nextMessageId,
                  nextHistoryId, now, pool, sv, cached, insertId, response,
                  returned >>

\* deleteUserData: DELETE FROM discord_user WHERE id = ?; the user's history
\* rows go with it (ON DELETE CASCADE).
DeleteUser(p) ==
  /\ pc[p] = "deleteUser"
  /\ discord_user' = { u \in discord_user : u.id # call[p].discordId }
  /\ history' = { h \in history : h.discord_id # call[p].discordId }
  /\ Finished(p, [ kind |-> "deleted", history_deleted |-> existing[p],
                   user_deleted |-> HasUser(call[p].discordId) ])
  /\ UNCHANGED << translation_history, nextMessageId, nextHistoryId, now, pool,
                  calls >>

\* Time passes.
Tick ==
  /\ now < MaxTime
  /\ now' = now + 1
  /\ UNCHANGED << store, pool, calls, pc, call, locals, returned,
                  interaction, sent >>

Step(p) ==
  \/ TranslateCall(p)
  \/ LookupSelect(p)
  \/ LookupUpdate(p)
  \/ ModelReply(p)
  \/ SaveCall(p)
  \/ SaveSelect(p)
  \/ SaveUpdate(p)
  \/ SaveInsert(p)
  \/ SaveUser(p)
  \/ LinkSelect(p)
  \/ LinkInsert(p)
  \/ StatementFails(p)
  \/ CleanOldTranslations(p)
  \/ DeleteUserData(p)
  \/ DeleteUser(p)

\* Requests run concurrently: any request may take its next step.
Next == Tick \/ \E p \in Procs : Step(p)

Spec == Init /\ [][Next]_vars

\* No other request is in flight.
Alone(p) == \A q \in Procs \ {p} : pc[q] = "idle"

\* Requests run one after the other: a call starts when no other is in flight.
SeqNext ==
  \/ Tick
  \/ \E p \in Procs :
       \/ Alone(p) /\ TranslateCall(p)
       \/ Alone(p) /\ LookupSelect(p)
       \/ Alone(p) /\ LookupUpdate(p)
       \/ Alone(p) /\ ModelReply(p)
       \/ Alone(p) /\ SaveCall(p)
       \/ Alone(p) /\ SaveSelect(p)
       \/ Alone(p) /\ SaveUpdate(p)
       \/ Alone(p) /\ SaveInsert(p)
       \/ Alone(p) /\ SaveUser(p)
       \/ Alone(p) /\ LinkSelect(p)
       \/ Alone(p) /\ LinkInsert(p)
       \/ Alone(p) /\ StatementFails(p)
       \/ Alone(p) /\ CleanOldTranslations(p)
       \/ Alone(p) /\ DeleteUserData(p)
       \/ Alone(p) /\ DeleteUser(p)

SeqSpec == Init /\ [][SeqNext]_vars

\* ------------------------------------------------ a database already in use
\* The tables outlive the process (CREATE TABLE IF NOT EXISTS): a run may
\* start on rows that earlier runs wrote.

\* A row as the INSERT of saveTranslationToHistory wrote it `created` days
\* ago, used `uses` times since.
storedEntry(id, message, created, uses) ==
  [ id |-> id,
    original_message |-> message,
    original_message_hash |-> hashMessage(message),
    target_language |-> <<"e", "s">>,
    detected_language |-> "en",
    translated_message |-> <<"o", "l", "a">>,
    created_at |-> created,
    updated_at |-> created,
    use_count |-> uses ]

\* The cache tables a run may start on: the entry of "Hi", written yesterday
\* or today and used once or twice, and yesterday's entry of "yo", used once.
StoredEntries ==
  { { storedEntry(1, <<"H", "i">>, created, uses),
      storedEntry(2, <<"y", "o">>, 0 - 1, 1) } :
    created \in { 0 - 1, 0 }, uses \in { 1, 2 } }

storedLink(id, discordId, messageId) ==
  [ id |-> id, discord_id |-> discordId, message_id |-> messageId ]

\* The users and links a run may start on: another user only, or the caller
\* and another user.
StoredUsers ==
  { [ discord_user |-> { [ id |-> "u2", username |-> "bob" ] },
      history |-> { storedLink(1, "u2", 1) } ],
    [ discord_user |-> { [ id |-> "u1", username |-> "ann" ],
                         [ id |-> "u2", username |-> "bob" ] },
      history |-> { storedLink(1, "u2", 1), storedLink(2, "u1", 1),
                    storedLink(3, "u1", 2) } ] }

StoredInit ==
  /\ translation_history \in StoredEntries
  /\ \E users \in StoredUsers :
       /\ discord_user = users.discord_user
       /\ history = users.history
  /\ nextMessageId = 3
  /\ nextHistoryId = 4
  /\ now = 0
  /\ pool = PoolInitialized
  /\ calls = 0
  /\ pc = [p \in Procs |-> "idle"]
  /\ call = [p \in Procs |-> NoCall]
  /\ sv = [p \in Procs |-> NoSave]
  /\ cached = [p \in Procs |-> NoRow]
  /\ existing = [p \in Procs |-> 0]
  /\ insertId = [p \in Procs |-> 0]
  /\ response = [p \in Procs |-> NoReply]
  /\ returned = [ call |-> NoCall, outcome |-> NoOutcome ]
  /\ interaction = [p \in Procs |-> NoInteraction]
  /\ sent = <<>>

\* Lookups, saves, the purge and the deletion of a user's data, running
\* concurrently within one day.
MaintNext ==
  \E p \in Procs :
       \/ LookupCall(p)
       \/ LookupSelect(p)
       \/ LookupUpdate(p)
       \/ SaveCall(p)
       \/ SaveSelect(p)
       \/ SaveUpdate(p)
       \/ SaveInsert(p)
       \/ SaveUser(p)
       \/ LinkSelect(p)
       \/ LinkInsert(p)
       \/ CleanOldTranslations(p)
       \/ DeleteUserData(p)
       \/ DeleteUser(p)
       \/ StatementFails(p)

MaintSpec == StoredInit /\ [][MaintNext]_vars

\* The cache tables a purge may find: the entry of "Hi" and the entry of
\* "yo", each used once or twice.
PurgeEntries ==
  { { storedEntry(1, <<"H", "i">>, created, uses),
      storedEntry(2, <<"y", "o">>, 0 - 1, strayUses) } :
    created \in { 0 - 1, 0 }, uses \in { 1, 2 }, strayUses \in { 1, 2 } }

PurgeInit ==
  /\ translation_history \in PurgeEntries
  /\ \E users \in StoredUsers :
       /\ discord_user = users.discord_user
       /\ history = users.history
  /\ nextMessageId = 3
  /\ nextHistoryId = 4
  /\ now = 0
  /\ pool = PoolInitialized
  /\ calls = 0
  /\ pc = [p \in Procs |-> "idle"]
  /\ call = [p \in Procs |-> NoCall]
  /\ sv = [p \in Procs |-> NoSave]
  /\ cached = [p \in Procs |-> NoRow]
  /\ existing = [p \in Procs |-> 0]
  /\ insertId = [p \in Procs |-> 0]
  /\ response = [p \in Procs |-> NoReply]
  /\ returned = [ call |-> NoCall, outcome |-> NoOutcome ]
  /\ interaction = [p \in Procs |-> NoInteraction]
  /\ sent = <<>>

\* Translations of a message whose entry is in the cache, with the purge
\* running at any point between their statements.
PurgeNext ==
  \E p \in Procs :
       \/ TranslateCall(p)
       \/ LookupSelect(p)
       \/ LookupUpdate(p)
       \/ ModelReply(p)
       \/ SaveSelect(p)
       \/ SaveUpdate(p)
       \/ SaveInsert(p)
       \/ SaveUser(p)
       \/ LinkSelect(p)
       \/ LinkInsert(p)
       \/ CleanOldTranslations(p)

PurgeSpec == PurgeInit /\ [][PurgeNext]_vars

\* ------------------------------------------------------ hashMessage alone

\* The characters of the texts hashed: a capital, its small letter, a space.
Letters == { "H", "h", " " }

\* The texts of at most n characters.
TextsUpTo(n) == UNION { [1..k -> Letters] : k \in 0..n }

\* Each request is about to hash a text.
HashInit ==
  /\ translation_history = {}
  /\ discord_user = {}
  /\ history = {}
  /\ nextMessageId = 1
  /\ nextHistoryId = 1
  /\ now = 0
  /\ pool = PoolInitialized
  /\ calls = 0
  /\ pc = [p \in Procs |-> "hash"]
  /\ \E a \in TextsUpTo(MaxLen), b \in TextsUpTo(MaxLen) :
       call = [p \in Procs |->
                 Called("hash", IF p = "p1" THEN a ELSE b, <<>>, <<"", "">>)]
  /\ sv = [p \in Procs |-> NoSave]
  /\ cached = [p \in Procs |-> NoRow]
  /\ existing = [p \in Procs |-> 0]
  /\ insertId = [p \in Procs |-> 0]
  /\ response = [p \in Procs |-> NoReply]
  /\ returned = [ call |-> NoCall, outcome |-> NoOutcome ]
  /\ interaction = [p \in Procs |-> NoInteraction]
  /\ sent = <<>>

\* await hashMessage(message)
HashMessage(p) ==
  /\ pc[p] = "hash"
  /\ Finished(p, [ kind |-> "hash", digest |-> hashMessage(call[p].message) ])
  /\ UNCHANGED << store, now, pool, calls >>

HashNext == \E p \in Procs : HashMessage(p)

HashSpec == HashInit /\ [][HashNext]_vars

\* --------------------------------------------- a cache with duplicate rows

\* A second or third row of the key of "Hi", as two overlapping saves leave
\* them: written yesterday, used `uses` times, last on day `updated`, with
\* the translation `text`.
duplicateEntry(id, uses, updated, text) ==
  [ storedEntry(id, <<"H", "i">>, 0 - 1, uses) EXCEPT
      !.updated_at = updated, !.translated_message = text ]

\* The cache tables a run may start on: two rows for the key of "Hi" with
\* every order of their use counts and dates, next to the row of "yo"; or
\* the row of "yo" alone.
DuplicateEntries ==
  { { duplicateEntry(1, u1, a1, <<"a", "l", "o">>),
      duplicateEntry(2, u2, a2, <<"o", "l", "e">>),
      storedEntry(3, <<"y", "o">>, 0 - 1, 1) } :
    u1 \in { 1, 2 }, a1 \in { 0 - 1, 0 }, u2 \in { 1, 2, 3 }, a2 \in { 0 - 1, 0 } }
  \cup { { storedEntry(3, <<"y", "o">>, 0 - 1, 1) } }

DuplicateInit ==
  /\ translation_history \in DuplicateEntries
  /\ discord_user = {}
  /\ history = {}
  /\ nextMessageId = 4
  /\ nextHistoryId = 1
  /\ now = 0
  /\ pool = PoolInitialized
  /\ calls = 0
  /\ pc = [p \in Procs |-> "idle"]
  /\ call = [p \in Procs |-> NoCall]
  /\ sv = [p \in Procs |-> NoSave]
  /\ cached = [p \in Procs |-> NoRow]
  /\ existing = [p \in Procs |-> 0]
  /\ insertId = [p \in Procs |-> 0]
  /\ response = [p \in Procs |-> NoReply]
  /\ returned = [ call |-> NoCall, outcome |-> NoOutcome ]
  /\ interaction = [p \in Procs |-> NoInteraction]
  /\ sent = <<>>

\* Lookups and saves, one after the other, within one day.
DuplicateNext ==
  \E p \in Procs :
       \/ Alone(p) /\ LookupCall(p)
       \/ Alone(p) /\ LookupSelect(p)
       \/ Alone(p) /\ LookupUpdate(p)
       \/ Alone(p) /\ SaveCall(p)
       \/ Alone(p) /\ SaveSelect(p)
       \/ Alone(p) /\ SaveUpdate(p)
       \/ Alone(p) /\ SaveInsert(p)
       \/ Alone(p) /\ SaveUser(p)
       \/ Alone(p) /\ LinkSelect(p)
       \/ Alone(p) /\ LinkInsert(p)
       \/ Alone(p) /\ StatementFails(p)

DuplicateSpec == DuplicateInit /\ [][DuplicateNext]_vars

\* ------------------------------------------------------ the connection pool

\* (mutant) a pool is created at every call
initMySQLPoolAnew(pl) ==
  [ current |-> pl.created + 1, created |-> pl.created + 1 ]

\* initMySQLPool: if (pool) return pool; pool = mysql.createPool(...)
initMySQLPool(pl) ==
  IF pl.current # 0 THEN pl
  ELSE [ current |-> pl.created + 1, created |-> pl.created + 1 ]

\* initMySQLPool() is called and returns the pool.
InitMySQLPool(p) ==
  /\ pc[p] = "idle"
  /\ pool.created <= MaxCalls
  /\ pool' = initMySQLPool(pool)
  /\ returned' = [ call |-> [ op |-> "initMySQLPool" ],
                   outcome |-> [ kind |-> "pool", pool |-> pool'.current ] ]
  /\ UNCHANGED << store, now, calls, pc, call, locals, interaction, sent >>

\* The operations of the store, each of which begins with getPool().
StoreOperations == { "translate", "lookup", "save", "clean", "delete" }

PoolError == [ kind |-> "error", error |-> "pool not initialized" ]

\* An operation of the store is called while pool is null: getPool throws
\* before any statement is sent.
CallWithoutPool(p) ==
  /\ Free(p)
  /\ poolMissing
  /\ calls' = calls + 1
  /\ \E op \in StoreOperations :
       returned' = [ call |-> [ op |-> op ], outcome |-> PoolError ]
  /\ UNCHANGED << store, now, pool, pc, call, locals, interaction, sent >>

\* The module is loaded and initMySQLPool has not been called yet.
PoolInit ==
  /\ translation_history = {}
  /\ discord_user = {}
  /\ history = {}
  /\ nextMessageId = 1
  /\ nextHistoryId = 1
  /\ now = 0
  /\ pool = NoPool
  /\ calls = 0
  /\ pc = [p \in Procs |-> "idle"]
  /\ call = [p \in Procs |-> NoCall]
  /\ sv = [p \in Procs |-> NoSave]
  /\ cached = [p \in Procs |-> NoRow]
  /\ existing = [p \in Procs |-> 0]
  /\ insertId = [p \in Procs |-> 0]
  /\ response = [p \in Procs |-> NoReply]
  /\ returned = [ call |-> NoCall, outcome |-> NoOutcome ]
  /\ interaction = [p \in Procs |-> NoInteraction]
  /\ sent = <<>>

\* Calls one after the other, of initMySQLPool and of the store's operations.
PoolNext ==
  \/ \E p \in Procs : Alone(p) /\ InitMySQLPool(p)
  \/ \E p \in Procs : Alone(p) /\ CallWithoutPool(p)
  \/ SeqNext

PoolSpec == PoolInit /\ [][PoolNext]_vars

\* ------------------------------------------- the prompt of translate alone

Quote == "\""
Backslash == "\\"
LineFeed == "\n"

\* slice(0, 2000) and slice(0, 50), scaled to the texts of at most MaxLen
\* characters: a text can be longer than the limit, and its escaped form too.
MessageLimit == 3
LanguageLimit == 2

\* message.replace(/"/g, '\\"')
RECURSIVE escapeQuotes(_)
escapeQuotes(s) ==
  IF s = <<>> THEN <<>>
  ELSE ( IF Head(s) = Quote THEN << Backslash, Quote >> ELSE << Head(s) >> )
         \o escapeQuotes(Tail(s))

\* s.slice(0, n)
slice(s, n) == SubSeq(s, 1, IF Len(s) < n THEN Len(s) ELSE n)

sanitizedMessage(message) == slice(escapeQuotes(message), MessageLimit)

\* [a-zA-Z\s-]: an ASCII letter, a whitespace character or the hyphen
allowedInLanguage(c) == c \in { "e", "E", "s", "S" } \cup { " ", LineFeed } \cup { "-" }

sanitizedLanguage(language) ==
  slice(SelectSeq(language, allowedInLanguage), LanguageLimit)

\* One request is about to build the prompt for a message and a language:
\* the message of letters, double quotes and backslashes, the language of
\* letters, hyphens, spaces, line feeds and digits.
PromptInit ==
  /\ translation_history = {}
  /\ discord_user = {}
  /\ history = {}
  /\ nextMessageId = 1
  /\ nextHistoryId = 1
  /\ now = 0
  /\ pool = PoolInitialized
  /\ calls = 0
  /\ \E q \in Procs :
       /\ pc = [p \in Procs |-> IF p = q THEN "prompt" ELSE "idle"]
       /\ \E m \in UNION { [1..k -> { "a", Quote, Backslash }] : k \in 0..MaxLen },
             l \in UNION { [1..k -> { "e", "-", " ", LineFeed, "1" }] :
                             k \in 0..MaxLen } :
            call = [p \in Procs |->
                      IF p = q THEN Called("prompt", m, l, <<"", "">>)
                      ELSE NoCall]
  /\ sv = [p \in Procs |-> NoSave]
  /\ cached = [p \in Procs |-> NoRow]
  /\ existing = [p \in Procs |-> 0]
  /\ insertId = [p \in Procs |-> 0]
  /\ response = [p \in Procs |-> NoReply]
  /\ returned = [ call |-> NoCall, outcome |-> NoOutcome ]
  /\ interaction = [p \in Procs |-> NoInteraction]
  /\ sent = <<>>

\* translate: the two texts embedded in the prompt
BuildPrompt(p) ==
  /\ pc[p] = "prompt"
  /\ Finished(p, [ kind |-> "prompt",
                   message |-> sanitizedMessage(call[p].message),
                   language |-> sanitizedLanguage(call[p].language) ])
  /\ UNCHANGED << store, now, pool, calls >>

PromptNext == \E p \in Procs : BuildPrompt(p)

PromptSpec == PromptInit /\ [][PromptNext]_vars

\* ------------------------------------- the reply's text and its two parses
\* Here response.text is the text itself, as a sequence of tokens: the fence
\* marks, the punctuation of JSON, white space, and words, a word being a
\* maximal run of the characters [a-zA-Z0-9_].

\* The two fence marks, three backquotes and three backquotes followed by
\* json, each as one token.
Fence == "<fence>"
FenceJson == "<fence>json"
Apostrophe == "'"
WhiteSpace == { " ", LineFeed }
isWord(t) ==
  t \notin { "{", "}", ",", ":", Quote, Apostrophe, Fence, FenceJson }
          \cup WhiteSpace

\* String.prototype.trim on a text
RECURSIVE trimText(_)
trimText(s) ==
  IF s # <<>> /\ Head(s) \in WhiteSpace THEN trimText(Tail(s))
  ELSE IF s # <<>> /\ s[Len(s)] \in WhiteSpace
  THEN trimText(SubSeq(s, 1, Len(s) - 1))
  ELSE s

notFence(t) == t \notin { Fence, FenceJson }

\* (response.text ?? "").trim(), then .replace(/```json|```/g, "").trim()
cleanedTextOf(text) == trimText(SelectSeq(trimText(text), notFence))

\* The first position from i on where s has token t, 0 when it has none.
RECURSIVE indexOf(_, _, _)
indexOf(s, t, i) ==
  IF i > Len(s) THEN 0 ELSE IF s[i] = t THEN i ELSE indexOf(s, t, i + 1)

\* JSON.parse, the lexical part: white space between the lexemes is skipped,
\* a string runs from a double quote to the next one ("bad" when there is
\* none), every other token is a lexeme of its own.
RECURSIVE lexemes(_)
lexemes(s) ==
  IF s = <<>> THEN <<>>
  ELSE IF Head(s) \in WhiteSpace THEN lexemes(Tail(s))
  ELSE IF Head(s) = Quote
  THEN LET j == indexOf(s, Quote, 2)
       IN  IF j = 0 THEN << [ k |-> "bad", v |-> <<>> ] >>
           ELSE << [ k |-> "string", v |-> SubSeq(s, 2, j - 1) ] >>
                \o lexemes(SubSeq(s, j + 1, Len(s)))
  ELSE << [ k |-> Head(s), v |-> <<>> ] >> \o lexemes(Tail(s))

\* JSON.parse of a value that is one lexeme: a string, a number or null.
NotJson == [ ok |-> FALSE, t |-> "none", v |-> <<>>, members |-> <<>> ]
scalarOf(lexeme) ==
  CASE lexeme.k = "string" ->
         [ ok |-> TRUE, t |-> "string", v |-> lexeme.v, members |-> <<>> ]
    [] lexeme.k = "null" ->
         [ ok |-> TRUE, t |-> "null", v |-> <<>>, members |-> <<>> ]
    [] lexeme.k = "7" ->
         [ ok |-> TRUE, t |-> "number", v |-> <<>>, members |-> <<>> ]
    [] OTHER -> NotJson

\* JSON.parse of the members of an object: string : value, separated by
\* commas.  The result is the sequence of (key, value), or "bad".
RECURSIVE membersOf(_)
membersOf(ls) ==
  IF Len(ls) < 3 \/ ls[1].k # "string" \/ ls[2].k # ":" \/ ~scalarOf(ls[3]).ok
  THEN << "bad" >>
  ELSE LET member == << ls[1].v, scalarOf(ls[3]) >>
       IN  IF Len(ls) = 3 THEN << member >>
           ELSE IF ls[4].k # ","
           THEN << "bad" >>
           ELSE LET rest == membersOf(SubSeq(ls, 5, Len(ls)))
                IN  IF rest = << "bad" >> THEN rest ELSE << member >> \o rest

\* JSON.parse(text): whether it returns, and the value
JSONparse(text) ==
  LET ls == lexemes(text)
  IN  IF Len(ls) = 1 THEN scalarOf(ls[1])
      ELSE IF Len(ls) >= 2 /\ ls[1].k = "{" /\ ls[Len(ls)].k = "}"
      THEN LET ms == IF Len(ls) = 2 THEN <<>>
                     ELSE membersOf(SubSeq(ls, 2, Len(ls) - 1))
           IN  IF ms = << "bad" >> THEN NotJson
               ELSE [ ok |-> TRUE, t |-> "object", v |-> <<>>, members |-> ms ]
      ELSE NotJson

\* \s*: — the position of the colon that ends a match whose \s* begins at
\* i, 0 when there is none
RECURSIVE colonAfter(_, _)
colonAfter(s, i) ==
  IF i > Len(s) THEN 0
  ELSE IF s[i] \in WhiteSpace THEN colonAfter(s, i + 1)
  ELSE IF s[i] = ":" THEN i
  ELSE 0

\* /(['"])?([a-zA-Z0-9_]+)\1?\s*:/ at the start of s: the position where
\* the match ends, 0 when there is no match there.  The optional groups are
\* greedy: the quote, and its closing partner, are taken when the match can
\* be completed with them.
keyMatchEnd(s) ==
  IF Len(s) >= 2 /\ Head(s) \in { Quote, Apostrophe } /\ isWord(s[2])
  THEN IF Len(s) >= 3 /\ s[3] = s[1] /\ colonAfter(s, 4) # 0
       THEN colonAfter(s, 4)
       ELSE colonAfter(s, 3)
  ELSE IF s # <<>> /\ isWord(Head(s)) THEN colonAfter(s, 2)
  ELSE 0

\* cleanedText.replace(/(['"])?([a-zA-Z0-9_]+)\1?\s*:/g, '"$2":')
RECURSIVE quoteKeys(_)
quoteKeys(s) ==
  IF s = <<>> THEN <<>>
  ELSE LET end == keyMatchEnd(s)
           word == IF isWord(Head(s)) THEN Head(s) ELSE s[2]
       IN  IF end = 0 THEN << Head(s) >> \o quoteKeys(Tail(s))
           ELSE << Quote, word, Quote, ":" >>
                \o quoteKeys(SubSeq(s, end + 1, Len(s)))

\* jsonResponse[name]: the value of the last member of that name, undefined
\* (AbsentText) when there is none or jsonResponse is not an object
RECURSIVE field(_, _)
field(members, name) ==
  IF members = <<>> THEN [ ok |-> TRUE, t |-> "undefined", v |-> AbsentText,
                           members |-> <<>> ]
  ELSE LET last == members[Len(members)]
       IN  IF last[1] = << name >> THEN last[2]
           ELSE field(SubSeq(members, 1, Len(members) - 1), name)

\* jsonResponse[name] ?? other
fieldOrElse(json, name, other) ==
  LET value == field(json.members, name)
  IN  IF value.t \in { "undefined", "null" } THEN other ELSE value.v

\* The result object of translate, from jsonResponse and the input message.
resultFrom(json, message) ==
  [ kind |-> "result",
    original_message |-> fieldOrElse(json, "original_message", message),
    translated_message |-> fieldOrElse(json, "translated_message", message),
    detected_language |->
      fieldOrElse(json, "detected_language", << "unknown" >>),
    from_cache |-> FALSE ]

\* The first attempt: try { jsonResponse = JSON.parse(cleanedText) }
\* (mutant) the keys are quoted before the first attempt
strictParseRepaired(cleanedText) == JSONparse(quoteKeys(cleanedText))
strictParse(cleanedText) == JSONparse(cleanedText)

\* An object written as text: the keys as given (a word, or a word between
\* quotes), the values as quoted strings.
RECURSIVE membersText(_, _)
membersText(keyQuote, ms) ==
  IF ms = <<>> THEN <<>>
  ELSE ( IF keyQuote = "" THEN << ms[1][1] >>
         ELSE << keyQuote, ms[1][1], keyQuote >> )
       \o << ":", " ", Quote >> \o ms[1][2] \o << Quote >>
       \o ( IF Len(ms) = 1 THEN <<>> ELSE << ",", LineFeed >> )
       \o membersText(keyQuote, Tail(ms))

objectText(keyQuote, om, tm, dl) ==
  << "{" >>
  \o membersText(keyQuote,
        SelectSeq(<< << "original_message", om >>,
                     << "translated_message", tm >>,
                     << "detected_language", dl >> >>,
                  LAMBDA m : m[2] # AbsentText))
  \o << "}" >>

fenced(open, text) ==
  IF open = "" THEN text
  ELSE << open, LineFeed >> \o text \o << LineFeed, Fence, LineFeed >>

\* The messages to translate, and what the model may give as translation and
\* as detected language; one message and one translation have a word
\* followed by a colon.
ParseTranslations == { << "ola" >>, << "Re", ":", " ", "ola" >> }
ParseLanguages == { << "en" >> }

\* response.text for a request to translate `message`: an object with or
\* without fence marks, its keys in double quotes, in apostrophes or bare,
\* or a text that is no object.
RawReplies(message) ==
  { fenced(open, objectText(kq, om, tm, dl)) :
      open \in { "", Fence, FenceJson }, kq \in { Quote, Apostrophe, "" },
      om \in { message, AbsentText },
      tm \in ParseTranslations \cup { AbsentText },
      dl \in ParseLanguages \cup { AbsentText } }
  \cup { fenced(open, text) :
           open \in { "", Fence, FenceJson },
           text \in { << "7" >>, << "null" >>, << "Sorry", ":", " ", "no" >> } }

\* generateContent has returned: one request is about to handle the reply.
ParseInit ==
  /\ translation_history = {}
  /\ discord_user = {}
  /\ history = {}
  /\ nextMessageId = 1
  /\ nextHistoryId = 1
  /\ now = 0
  /\ pool = PoolInitialized
  /\ calls = 0
  /\ \E q \in Procs :
       /\ pc = [p \in Procs |-> IF p = q THEN "strip" ELSE "idle"]
       /\ \E m \in { << "Hi" >>, << "Re", ":", " ", "Hi" >> } :
            /\ call = [p \in Procs |->
                         IF p = q
                         THEN Called("parse", m, <<"e", "s">>, <<"", "">>)
                         ELSE NoCall]
            /\ \E text \in RawReplies(m) :
                 response = [p \in Procs |->
                               IF p = q
                               THEN [ form |-> "text", text |-> text,
                                      cleanedText |-> <<>> ]
                               ELSE NoReply]
  /\ sv = [p \in Procs |-> NoSave]
  /\ cached = [p \in Procs |-> NoRow]
  /\ existing = [p \in Procs |-> 0]
  /\ insertId = [p \in Procs |-> 0]
  /\ returned = [ call |-> NoCall, outcome |-> NoOutcome ]
  /\ interaction = [p \in Procs |-> NoInteraction]
  /\ sent = <<>>

\* rawText and cleanedText are computed.
StripFences(p) ==
  /\ pc[p] = "strip"
  /\ response' = [response EXCEPT ![p].cleanedText =
                    cleanedTextOf(response[p].text)]
  /\ Goto(p, "strictParse")
  /\ UNCHANGED << store, now, pool, calls, sv, cached, existing, insertId >>

\* What translate goes on with once jsonResponse is assigned: the result
\* object, or the TypeError of reading a property of null.
Parsed(p, json) ==
  IF json.t = "null"
  THEN Finished(p, [ kind |-> "error", error |-> "TypeError" ])
  ELSE Finished(p, resultFrom(json, call[p].message))

\* try { jsonResponse = JSON.parse(cleanedText) } catch { ... }
StrictParse(p) ==
  /\ pc[p] = "strictParse"
  /\ LET json == strictParse(response[p].cleanedText)
     IN  IF json.ok THEN Parsed(p, json)
         ELSE /\ Goto(p, "repair")
              /\ UNCHANGED locals
  /\ UNCHANGED << store, now, pool, calls >>

\* The fallback: the keys are quoted and the text is parsed again; when that
\* fails too, the error with the reply's text is thrown.
RepairParse(p) ==
  /\ pc[p] = "repair"
  /\ LET json == JSONparse(quoteKeys(response[p].cleanedText))
     IN  IF json.ok THEN Parsed(p, json)
         ELSE Finished(p, [ kind |-> "error", error |-> "parse",
                            raw |-> response[p].text ])
  /\ UNCHANGED << store, now, pool, calls >>

ParseNext == \E p \in Procs : StripFences(p) \/ StrictParse(p) \/ RepairParse(p)

ParseSpec == ParseInit /\ [][ParseNext]_vars

\* ------------------------------------------------- the interactions server

\* The user of the interactions: data.member.user (id, username).
Member == << "u1", "ann" >>
english == << "e", "n", "g", "l", "i", "s", "h" >>

\* data.data.options: the values of "message" and "language", AbsentText
\* for an option that is not there.
Options(message, language) == [ message |-> message, language |-> language ]
NoOptions == Options(AbsentText, AbsentText)

\* data.data.resolved.messages[data.data.target_id]
Resolved(content) == [ found |-> TRUE, content |-> content ]
NoResolved == [ found |-> FALSE, content |-> AbsentText ]

\* The body of an interaction request, as JSON.parse gives it.
Body(type, name, options, resolved) ==
  [ type |-> type, name |-> name, options |-> options,
    resolved |-> resolved, user |-> Member ]
NoData == Body(0, "", NoOptions, NoResolved)

Ping == Body(1, "", NoOptions, NoResolved)
SlashTranslate(message, language) ==
  Body(2, "translate", Options(message, language), NoResolved)
TranslateMessage(resolved) ==
  Body(2, "Translate Message", NoOptions, resolved)

\* The X-Signature-Ed25519 header: missing, not the hex of 64 bytes, or a
\* signature made with some key over some timestamp and body.
NoSignature == [ form |-> "none", by |-> "", over |-> << "", NoData >> ]
Malformed == [ form |-> "malformed", by |-> "", over |-> << "", NoData >> ]
Signed(by, timestamp, body) ==
  [ form |-> "hex", by |-> by, over |-> << timestamp, body >> ]

Request(method, path, signature, timestamp, body) ==
  [ method |-> method, path |-> path, signature |-> signature,
    timestamp |-> timestamp, body |-> body ]

\* A POST to the interactions endpoint that Discord has signed.
FromDiscord(body) ==
  Request("POST", "/", Signed("discord", "t1", body), "t1", body)

\* The requests the server may receive.
Incoming ==
  { Request("GET", "/health", NoSignature, "", NoData),
    Request("GET", "/privacy", NoSignature, "", NoData),
    Request("GET", "/", NoSignature, "", NoData),
    Request("POST", "/", NoSignature, "t1", Ping),
    Request("POST", "/", Signed("discord", "t1", Ping), "", Ping),
    Request("POST", "/", Malformed, "t1", Ping),
    Request("POST", "/", Signed("other", "t1", Ping), "t1", Ping),
    Request("POST", "/", Signed("discord", "t1", Ping), "t1",
            SlashTranslate(<<"H", "i">>, <<"e", "s">>)),
    FromDiscord(Ping),
    FromDiscord(Body(3, "", NoOptions, NoResolved)),
    FromDiscord(Body(2, "stats", NoOptions, NoResolved)),
    FromDiscord(Body(2, "translate_message", NoOptions, NoResolved)),
    FromDiscord(SlashTranslate(<<"H", "i">>, <<"e", "s">>)),
    FromDiscord(SlashTranslate(AbsentText, <<"e", "s">>)),
    FromDiscord(SlashTranslate(<<>>, <<"e", "s">>)),
    FromDiscord(SlashTranslate(<<"H", "i">>, AbsentText)),
    FromDiscord(TranslateMessage(Resolved(<<"H", "i">>))),
    FromDiscord(TranslateMessage(NoResolved)) }

\* nacl.sign.detached.verify(timestamp + body, signature, PUB_KEY): the
\* signature was made with Discord's key over this timestamp and this body.
\* (mutant) a signature made with Discord's key over anything is accepted
verifyAnyMessage(timestamp, body, signature) == signature.by = "discord"
verify(timestamp, body, signature) ==
  signature.by = "discord" /\ signature.over = << timestamp, body >>

\* What goes out: the HTTP response to request number `token`, or the
\* follow-up message POSTed to the webhook of interaction `token`.
NoEmbed ==
  [ cached |-> FALSE, language |-> AbsentText, original |-> AbsentText,
    detected |-> Absent, translated |-> AbsentText ]

Response(token, request, status, type, flags) ==
  [ kind |-> "response", token |-> token, request |-> request,
    status |-> status, type |-> type, flags |-> flags,
    content |-> AbsentText, embeds |-> NoEmbed ]

sendFollowUpData(token, data) ==
  [ kind |-> "followUp", token |-> token,
    request |-> Request("POST", "/webhooks", NoSignature, "", NoData),
    status |-> 0, type |-> 0, flags |-> data.flags,
    content |-> data.content, embeds |-> data.embeds ]

\* (mutant) the acknowledgment is an immediate message
deferResponseImmediate(ephemeral) ==
  [ type |-> 4, flags |-> IF ephemeral THEN 64 ELSE 0 ]

\* deferResponse(ephemeral): type 5, flags 64 when ephemeral
deferResponse(ephemeral) ==
  [ type |-> 5, flags |-> IF ephemeral THEN 64 ELSE 0 ]

\* The texts of the follow-ups (without their emoji).
MessageNotFound == << "Message not found" >>
NoMessageProvided == << "No message provided" >>
NoLanguageProvided == << "No language provided" >>
TranslationFailed == << "Translation failed. Please try again later." >>

Notice(content) == [ content |-> content, embeds |-> NoEmbed, flags |-> 64 ]

\* (mutant) the notice carries the error's text
failureNoticeDetailed(error) == Notice(<< error.error >>)

\* catch (error) { ... sendFollowUp(interactionToken, { content: "...",
\* flags: 64 }) }
failureNotice(error) == Notice(TranslationFailed)

\* value || "N/A"
OrNA(text) == IF text = <<>> THEN << "N/A" >> ELSE text

embedOf(translation, language) ==
  [ cached |-> translation.from_cache,
    language |-> language,
    original |-> OrNA(translation.original_message),
    detected |-> IF translation.detected_language = "" THEN "N/A"
                 ELSE translation.detected_language,
    translated |-> OrNA(translation.translated_message) ]

\* (mutant) only a missing option counts, an empty text does not
optionUndefined(value) == value = AbsentText
\* !messageText, !language: the option is not there or is the empty string
optionMissing(value) == value = AbsentText \/ value = <<>>

\* register(): the names of the commands put to Discord
commands == { "Translate Message", "translate" }

Handlers == { "translate_message", "translate" }
commandAliases == [ n \in { "Translate Message" } |-> "translate_message" ]

\* commandHandlers[commandName] ?? commandHandlers[commandAliases[commandName] ?? ""]
handlerFor(commandName) ==
  IF commandName \in Handlers THEN commandName
  ELSE IF commandName \in DOMAIN commandAliases
          /\ commandAliases[commandName] \in Handlers
  THEN commandAliases[commandName]
  ELSE ""

\* fetch returns `response` (or throws, status 500): the request is done.
Respond(p, res) ==
  /\ sent' = Append(sent, res)
  /\ interaction' = [interaction EXCEPT ![p] = NoInteraction]
  /\ pc' = [pc EXCEPT ![p] = "idle"]

\* fetch, up to the check of the two headers: /health, /privacy, 405 for
\* another method than POST, 400 without signature or timestamp.
Receive(p) ==
  /\ Free(p)
  /\ calls' = calls + 1
  /\ \E req \in Incoming :
       LET token == calls + 1
       IN  IF req.path \in { "/health", "/privacy" }
           THEN Respond(p, Response(token, req, 200, 0, 0))
           ELSE IF req.method # "POST"
           THEN Respond(p, Response(token, req, 405, 0, 0))
           ELSE IF req.signature.form = "none" \/ req.timestamp = ""
           THEN Respond(p, Response(token, req, 400, 0, 0))
           ELSE /\ interaction' =
                     [interaction EXCEPT ![p] =
                        [ token |-> token, request |-> req, data |-> NoData,
                          handler |-> "", outcome |-> NoOutcome ]]
                /\ pc' = [pc EXCEPT ![p] = "verify"]
                /\ UNCHANGED sent
  /\ UNCHANGED << store, now, pool, call, locals, returned >>

\* fetch: the signature is verified (verify throws on a signature of the
\* wrong size), 401 when it does not verify, then the body is parsed.
Verify(p) ==
  /\ pc[p] = "verify"
  /\ LET req == interaction[p].request
         token == interaction[p].token
     IN  IF req.signature.form = "malformed"
         THEN Respond(p, Response(token, req, 500, 0, 0))
         ELSE IF ~verify(req.timestamp, req.body, req.signature)
         THEN Respond(p, Response(token, req, 401, 0, 0))
         ELSE /\ interaction' = [interaction EXCEPT ![p].data = req.body]
              /\ pc' = [pc EXCEPT ![p] = "dispatch"]
              /\ UNCHANGED sent
  /\ UNCHANGED << store, now, pool, calls, call, locals, returned >>

\* fetch: the PING reply, the command's handler (which starts its timer and
\* returns the deferred acknowledgment), or 404.
Dispatch(p) ==
  /\ pc[p] = "dispatch"
  /\ LET req == interaction[p].request
         token == interaction[p].token
         data == interaction[p].data
     IN  IF data.type = 1
         THEN Respond(p, Response(token, req, 200, 1, 0))
         ELSE IF data.type = 2 /\ handlerFor(data.name) # ""
         THEN /\ sent' = Append(sent,
                   Response(token, req, 200, deferResponse(TRUE).type,
                            deferResponse(TRUE).flags))
              /\ interaction' =
                   [interaction EXCEPT ![p].handler = handlerFor(data.name)]
              /\ pc' = [pc EXCEPT ![p] = "timer"]
         ELSE Respond(p, Response(token, req, 404, 0, 0))
  /\ UNCHANGED << store, now, pool, calls, call, locals, returned >>

\* await sendFollowUp(interactionToken, data): the POST is attempted; a
\* failure of it is logged and not thrown.  The task is over.
SendFollowUp(p, data) ==
  /\ sent' = Append(sent, sendFollowUpData(interaction[p].token, data))
  /\ interaction' = [interaction EXCEPT ![p] = NoInteraction]
  /\ pc' = [pc EXCEPT ![p] = "idle"]

\* The task calls translate(message, language, userId, username).
Invoke(p, message, language, user) ==
  /\ call' = [call EXCEPT ![p] = Called("translate", message, language, user)]
  /\ pc' = [pc EXCEPT ![p] = "lookupSelect"]
  /\ UNCHANGED << interaction, sent >>

\* The timer fires: the handler's background task runs up to its first
\* await, the follow-up for a missing input or the call of translate.
TaskRun(p) ==
  /\ pc[p] = "timer"
  /\ LET data == interaction[p].data
     IN  IF interaction[p].handler = "translate_message"
         THEN IF ~data.resolved.found
              THEN SendFollowUp(p, Notice(MessageNotFound))
                   /\ UNCHANGED call
              ELSE Invoke(p, data.resolved.content, english, data.user)
         ELSE IF optionMissing(data.options.message)
         THEN SendFollowUp(p, Notice(NoMessageProvided)) /\ UNCHANGED call
         ELSE IF optionMissing(data.options.language)
         THEN SendFollowUp(p, Notice(NoLanguageProvided)) /\ UNCHANGED call
         ELSE Invoke(p, data.options.message, data.options.language,
                     data.user)
  /\ UNCHANGED << store, now, pool, calls, locals, returned >>

\* translate has returned or thrown to the task: the follow-up with the
\* translation, or the catch block's notice.
FollowUp(p) ==
  /\ pc[p] = "followUp"
  /\ LET o == interaction[p].outcome
         data == interaction[p].data
     IN  IF o.kind = "error"
         THEN SendFollowUp(p, failureNotice(o))
         ELSE IF interaction[p].handler = "translate_message"
         THEN SendFollowUp(p, [ content |-> AbsentText,
                                embeds |-> embedOf(o, AbsentText),
                                flags |-> 64 ])
         ELSE SendFollowUp(p, [ content |-> o.translated_message,
                                embeds |-> embedOf(o, data.options.language),
                                flags |-> 64 ])
  /\ UNCHANGED << store, now, pool, calls, call, locals, returned >>

\* The server, one interaction at a time: a request arrives when no other is
\* in flight and runs up to its response and, for a command, through its
\* background task.
ServeNext ==
  \E p \in Procs :
       \/ Alone(p) /\ Receive(p)
       \/ Alone(p) /\ Verify(p)
       \/ Alone(p) /\ Dispatch(p)
       \/ Alone(p) /\ TaskRun(p)
       \/ Alone(p) /\ LookupSelect(p)
       \/ Alone(p) /\ LookupUpdate(p)
       \/ Alone(p) /\ ModelReply(p)
       \/ Alone(p) /\ SaveSelect(p)
       \/ Alone(p) /\ SaveUpdate(p)
       \/ Alone(p) /\ SaveInsert(p)
       \/ Alone(p) /\ SaveUser(p)
       \/ Alone(p) /\ LinkSelect(p)
       \/ Alone(p) /\ LinkInsert(p)
       \/ Alone(p) /\ StatementFails(p)
       \/ Alone(p) /\ FollowUp(p)

ServeSpec == Init /\ [][ServeNext]_vars

\* ------------------------------------------------------------- properties

\* The fingerprint of a text: the digest of lowercase(trim(text)).
Fingerprint(text) == Digest(trimEnd(trimStart(toLowerCase(text))))

\* The cache key of a row and of a submission.
RowKey(r) == << Fingerprint(r.original_message), toLowerCase(r.target_language) >>
KeyOf(message, language) == << Fingerprint(message), toLowerCase(language) >>

\* Request q returns (or throws) in this step.
Returns(q) == pc[q] # "idle" /\ pc'[q] = "idle"

Quiescent == \A p \in Procs : pc[p] = "idle"

\* C1: with calls that do not overlap, the translation cache holds at most
\* one row per (fingerprint, lower-cased target language).
OneRowPerKey ==
  \A r1 \in translation_history : \A r2 \in translation_history :
    RowKey(r1) = RowKey(r2) => r1.id = r2.id

\* C1 witness: a save of "hi " / "Es" has returned and the one row of its key
\* is the row submitted as "Hi", used more than once.
RepeatedSubmissionUpdated ==
  /\ returned.call.op = "save"
  /\ returned.outcome = Void
  /\ returned.call.message = <<"h", "i", " ">>
  /\ \E r \in translation_history :
       /\ RowKey(r) = KeyOf(returned.call.message, returned.call.language)
       /\ r.original_message = <<"H", "i">>
       /\ r.use_count >= 2

\* C2: once the concurrent upserts have all returned, a key has exactly one
\* row (whose use_count then counts every attempt).
ConcurrentUpsertsOneRow ==
  Quiescent =>
    \A k \in { RowKey(r) : r \in translation_history } :
      Cardinality({ r \in translation_history : RowKey(r) = k }) = 1

\* C3: translate called twice in sequence for the same (message, language),
\* the first a miss that returned a result: the second returns
\* from_cache = true and leaves the row's use_count one greater.
TranslateTwice ==
  [][ \A q \in Procs :
        ( /\ Returns(q)
          /\ call[q].op = "translate"
          /\ returned.call.op = "translate"
          /\ returned.call.message = call[q].message
          /\ returned.call.language = call[q].language
          /\ returned.outcome.kind = "result"
          /\ ~returned.outcome.from_cache
          /\ returned'.outcome.kind = "result" )
        => /\ returned'.outcome.from_cache
           /\ \E r \in translation_history :
                /\ RowKey(r) = KeyOf(call[q].message, call[q].language)
                /\ \E r2 \in translation_history' :
                     r2.id = r.id /\ r2.use_count = r.use_count + 1
    ]_vars

\* C4: after translate("Hi", "es") with no user, translate("hi ", "Es", u1,
\* ann) is a cache hit, leaves exactly one link of u1 to the entry, and the
\* entry's original_message is still "Hi".
EndToEndHitLinksUser ==
  [][ \A q \in Procs :
        ( /\ Returns(q)
          /\ call[q] = Called("translate", <<"h", "i", " ">>, <<"E", "s">>,
                              <<"u1", "ann">>)
          /\ returned.call = Called("translate", <<"H", "i">>, <<"e", "s">>,
                                    <<"", "">>)
          /\ returned.outcome.kind = "result"
          /\ ~returned.outcome.from_cache
          /\ returned.outcome.original_message = <<"H", "i">>
          /\ returned'.outcome.kind = "result" )
        => /\ returned'.outcome.from_cache
           /\ \E r \in translation_history' :
                /\ RowKey(r) = KeyOf(<<"H", "i">>, <<"e", "s">>)
                /\ r.original_message = <<"H", "i">>
                /\ Cardinality({ h \in history' :
                     h.discord_id = "u1" /\ h.message_id = r.id }) = 1
    ]_vars

\* C5: a translate that finds its row neither reaches the model nor the save;
\* it returns the row it found, tagged from_cache, and all it changes in the
\* store is that row's use_count (+1) and updated_at.
HitOnlyCountsUse ==
  [][ \A p \in Procs :
        /\ pc[p] = "lookupSelect" => UNCHANGED store
        /\ ( pc[p] = "lookupUpdate" /\ call[p].op = "translate" ) =>
             /\ pc'[p] \in {"lookupUpdate", "idle"}
             /\ response'[p] = NoReply
             /\ UNCHANGED << discord_user, history, nextMessageId,
                             nextHistoryId >>
             /\ ( Returns(p) /\ returned'.outcome.kind = "result" ) =>
                  \E row \in translation_history :
                    /\ RowKey(row) = KeyOf(call[p].message, call[p].language)
                    /\ returned'.outcome.from_cache
                    /\ returned'.outcome.original_message = row.original_message
                    /\ returned'.outcome.translated_message =
                         row.translated_message
                    /\ returned'.outcome.detected_language =
                         row.detected_language
                    /\ translation_history' =
                         (translation_history \ {row}) \cup
                           { [ row EXCEPT !.use_count = row.use_count + 1,
                                          !.updated_at = now ] }
    ]_vars

\* C5 witness: a translate has returned from the cache, and its row has been
\* used more than once.
HitReturned ==
  /\ returned.call.op = "translate"
  /\ returned.outcome.kind = "result"
  /\ returned.outcome.from_cache
  /\ \E r \in translation_history :
       /\ RowKey(r) = KeyOf(returned.call.message, returned.call.language)
       /\ r.use_count >= 2

\* The statements of saveTranslationToHistory on the cache, and for the user.
CacheWrites == { "saveSelect", "saveUpdate", "saveInsert" }
Attribution == { "saveUser", "linkSelect", "linkInsert" }

\* C6: a translate whose reply is no object with the translation fields
\* (unparseable text, a JSON scalar, null) fails and writes nothing to the
\* store.
GarbageReplyFails ==
  [][ \A p \in Procs :
        ( /\ call[p].op = "translate"
          /\ response[p] # NoReply
          /\ response[p].value.t # "object" )
        => UNCHANGED << translation_history, discord_user, history >>
    ]_vars

\* C7: translate does not raise when a cache statement of the save throws.
WriteFailureNotRaised ==
  ~ ( /\ returned.call.op = "translate"
      /\ returned.outcome.kind = "error"
      /\ returned.outcome.error = "store"
      /\ returned.outcome.at \in CacheWrites )

\* C8: translate does not raise when the user upsert or the link check or
\* insert throws: it returns the result, from_cache = false.
AttributionFailureNotRaised ==
  ( /\ returned.call.op = "translate"
    /\ returned.outcome.kind = "error"
    /\ returned.outcome.error = "store" )
  => returned.outcome.at \notin Attribution

\* The attributed save of the same user and key that returned just before
\* request q started.
AfterSameAttribution(q) ==
  /\ pc[q] # "idle"
  /\ call[q].op = "save"
  /\ Attributed(call[q])
  /\ returned.call.op = "save"
  /\ returned.outcome = Void
  /\ returned.call.discordId = call[q].discordId
  /\ returned.call.username # ""
  /\ KeyOf(returned.call.message, returned.call.language)
       = KeyOf(call[q].message, call[q].language)

\* C9: an attributed save that follows an attributed save of the same user
\* and key leaves the history table as it is, with exactly one link of the
\* user to the entry.
SecondAttributionNoOp ==
  [][ \A q \in Procs :
        AfterSameAttribution(q) =>
          /\ history' = history
          /\ ( Returns(q) /\ returned'.outcome = Void ) =>
               \E r \in translation_history' :
                 /\ RowKey(r) = KeyOf(call[q].message, call[q].language)
                 /\ Cardinality({ h \in history' :
                      /\ h.discord_id = call[q].discordId
                      /\ h.message_id = r.id }) = 1
    ]_vars

\* C9 witness: the second attributed save is at its link check and the link
\* the first one made is there.
SecondAttributionChecks ==
  \E q \in Procs :
    /\ AfterSameAttribution(q)
    /\ pc[q] = "linkSelect"
    /\ \E h \in history :
         h.discord_id = sv[q].discordId /\ h.message_id = existing[q]

\* C10: a (user, cache entry) pair has at most one history row.
OneLinkPerPair ==
  \A h1 \in history : \A h2 \in history :
    ( h1.discord_id = h2.discord_id /\ h1.message_id = h2.message_id )
      => h1.id = h2.id

\* C11: an attributed translate (user id and display name both given) that
\* returns a result, from the cache or from the model, leaves a profile of
\* that user whose username is the display name of the call.
AttributedTranslateUpsertsUser ==
  [][ \A q \in Procs :
        ( /\ Returns(q)
          /\ call[q].op = "translate"
          /\ call[q].discordId # ""
          /\ call[q].username # ""
          /\ returned'.outcome.kind = "result" )
        => \E u \in discord_user' :
             u.id = call[q].discordId /\ u.username = call[q].username
    ]_vars

\* C12: no step of a translate call that lacks the user id or the display
\* name changes the discord_user or the history table.
AnonymousTouchesNoUser ==
  [][ \A p \in Procs :
        ( /\ call[p].op = "translate"
          /\ ( call[p].discordId = "" \/ call[p].username = "" ) )
        => UNCHANGED << discord_user, history >>
    ]_vars

\* C12 witness: a translate with a user id and no display name went through
\* the model and the save, and returned its result.
AnonymousTranslated ==
  /\ returned.call.op = "translate"
  /\ returned.call.discordId = "u1"
  /\ returned.call.username = ""
  /\ returned.outcome.kind = "result"
  /\ ~returned.outcome.from_cache
  /\ translation_history # {}

\* Request q runs the first statement of deleteUserData in this step.
DeletesLinks(q) == pc[q] = "idle" /\ pc'[q] = "deleteUser"

\* Request q runs the second statement of deleteUserData in this step, and
\* deleteUserData returns.
DeletesUser(q) ==
  /\ pc[q] = "deleteUser"
  /\ Returns(q)
  /\ returned'.outcome.kind = "deleted"

\* C13: deleteUserData(u) removes the links of u, all of them and no other,
\* then the profile of u and no other; it reports the number of links it
\* removed and whether the profile was there; it changes no cache row.
DeleteRemovesUser ==
  [][ \A q \in Procs :
        /\ DeletesLinks(q) =>
             LET u == call'[q].discordId
                 mine == { h \in history : h.discord_id = u }
             IN  /\ history' = history \ mine
                 /\ existing'[q] = Cardinality(mine)
                 /\ UNCHANGED << translation_history, discord_user >>
        /\ DeletesUser(q) =>
             LET u == call[q].discordId
             IN  /\ discord_user' = { x \in discord_user : x.id # u }
                 /\ history' = { h \in history : h.discord_id # u }
                 /\ UNCHANGED translation_history
                 /\ returned'.outcome.history_deleted = existing[q]
                 /\ returned'.outcome.user_deleted =
                      ( \E x \in discord_user : x.id = u )
    ]_vars

\* C13 witness: deleteUserData(u1) has removed links and the profile of u1;
\* the cache rows and the profile and link of u2 are there.
UserDataDeleted ==
  /\ returned.call.op = "delete"
  /\ returned.outcome.kind = "deleted"
  /\ returned.outcome.history_deleted >= 2
  /\ returned.outcome.user_deleted
  /\ \A x \in discord_user : x.id # "u1"
  /\ \A h \in history : h.discord_id # "u1"
  /\ \E x \in discord_user : x.id = "u2"
  /\ \E h \in history : h.discord_id = "u2"
  /\ Cardinality(translation_history) = 2

\* The user has neither a profile nor a link.
Unknown(u) ==
  /\ \A x \in discord_user : x.id # u
  /\ \A h \in history : h.discord_id # u

\* C14: deleteUserData for a user without profile and links changes nothing
\* in the store and returns zero links deleted and user_deleted = false.
UnknownUserDeleteNoOp ==
  [][ \A q \in Procs :
        /\ ( DeletesLinks(q) /\ Unknown(call'[q].discordId) ) =>
             /\ UNCHANGED store
             /\ existing'[q] = 0
        /\ ( DeletesUser(q) /\ Unknown(call[q].discordId) ) =>
             /\ UNCHANGED store
             /\ returned'.outcome.history_deleted = existing[q]
             /\ returned'.outcome.user_deleted = FALSE
    ]_vars

\* C14 witness: deleteUserData(u1) has returned zero and false on a store
\* that holds cache rows and the data of another user, u1 being unknown.
UnknownUserDeleteReturned ==
  /\ returned.call.op = "delete"
  /\ returned.outcome.kind = "deleted"
  /\ returned.outcome.history_deleted = 0
  /\ ~returned.outcome.user_deleted
  /\ Unknown("u1")
  /\ discord_user # {}
  /\ history # {}
  /\ translation_history # {}

\* cleanOldTranslations runs (its one statement) in this step.
Purges == calls' = calls + 1 /\ UNCHANGED pc

\* C15: cleanOldTranslations(d) deletes exactly the cache rows created more
\* than d days ago whose use_count is 1, leaves the other rows as they are
\* and returns the number of rows it deleted.
PurgeRemovesStaleUnused ==
  [][ Purges =>
        LET d == returned'.call.daysOld
            stale == { r \in translation_history :
                         r.created_at < now - d /\ r.use_count = 1 }
        IN  /\ translation_history' = translation_history \ stale
            /\ returned'.outcome.affectedRows = Cardinality(stale)
    ]_vars

\* C15 witness: the purge has removed a row and kept a row that is as old
\* and has been used more than once.
PurgeKeptReused ==
  /\ returned.call.op = "clean"
  /\ returned.outcome.affectedRows >= 1
  /\ \E r \in translation_history :
       r.use_count >= 2 /\ r.created_at < now - returned.call.daysOld

\* C16: a cache row whose use_count is greater than 1 is in the table after
\* every step, with a use_count that is no smaller.
ReusedRowKept ==
  [][ \A r \in translation_history :
        r.use_count > 1 =>
          \E r2 \in translation_history' :
            r2.id = r.id /\ r2.use_count >= r.use_count
    ]_vars

\* C16 witness: a purge of everything older than today has run, and a row
\* older than today that was used again since the run started is there.
ReusedRowSurvivedPurge ==
  /\ returned.call.op = "clean"
  /\ returned.call.daysOld = 0
  /\ \E r \in translation_history : r.use_count >= 3 /\ r.created_at < now

\* C17: a lookup that returns a row has raised the stored use_count of that
\* row by one and set its updated_at, and changed nothing else; a lookup that
\* returns null has changed nothing.
LookupHitCountsOnce ==
  [][ \A q \in Procs :
        /\ ( /\ pc[q] = "lookupUpdate"
             /\ Returns(q)
             /\ returned'.outcome.kind \in { "row", "result" } ) =>
             \E r \in translation_history :
               /\ r.id = cached[q].id
               /\ translation_history' =
                    (translation_history \ {r}) \cup
                      { [ r EXCEPT !.use_count = r.use_count + 1,
                                   !.updated_at = now ] }
        /\ ( /\ pc[q] = "lookupSelect"
             /\ Returns(q)
             /\ returned'.outcome = Null ) => UNCHANGED store
    ]_vars

\* Request p has run its statement `at` in this step, and the statement did
\* not throw.
Ran(p, at) ==
  /\ pc[p] = at
  /\ pc'[p] # at
  /\ ~ ( pc'[p] = "idle" /\ returned'.outcome.kind = "error" )

\* C18: every cache row has use_count >= 1; a new row has use_count 1; the
\* UPDATE of a lookup hit and the UPDATE of a re-translation add one to the
\* use_count of the row they are for; no other step changes the use_count
\* of a row.
UseCountCounts ==
  [][ /\ \A r2 \in translation_history' :
           /\ r2.use_count >= 1
           /\ ( \A r \in translation_history : r.id # r2.id )
                => r2.use_count = 1
           /\ \A r \in translation_history :
                r.id = r2.id =>
                  \/ r2.use_count = r.use_count
                  \/ /\ r2.use_count = r.use_count + 1
                     /\ \E p \in Procs :
                          \/ Ran(p, "lookupUpdate") /\ cached[p].id = r.id
                          \/ Ran(p, "saveUpdate") /\ existing[p] = r.id
      /\ \A r \in translation_history : \A p \in Procs :
           ( \/ Ran(p, "lookupUpdate") /\ cached[p].id = r.id
             \/ Ran(p, "saveUpdate") /\ existing[p] = r.id )
           => \E r2 \in translation_history' :
                r2.id = r.id /\ r2.use_count = r.use_count + 1
    ]_vars

\* C18 witness: a row written on one day was translated again on the next,
\* and its use_count is 2.
RetranslatedNextDay ==
  /\ returned.call.op = "save"
  /\ returned.outcome = Void
  /\ \E r \in translation_history :
       r.use_count = 2 /\ r.created_at = now - 1 /\ r.updated_at = now

\* C19: the row translate inserts on a miss has the submitted text as its
\* original_message and the fingerprint of the submitted text as its hash.
RowRecordsInput ==
  [][ \A p \in Procs :
        ( call[p].op = "translate" /\ Ran(p, "saveInsert") )
        => \E r \in translation_history' \ translation_history :
             /\ r.original_message = call[p].message
             /\ r.original_message_hash = Fingerprint(call[p].message)
    ]_vars

\* A capital and its small letter.
CasePairs == { <<"H", "h">>, <<"E", "e">>, <<"Y", "y">> }

SameLetter(c, d) == c = d \/ <<c, d>> \in CasePairs \/ <<d, c>> \in CasePairs

\* The texts differ by letter case only.
SameButCase(a, b) ==
  Len(a) = Len(b) /\ \A i \in 1..Len(a) : SameLetter(a[i], b[i])

Spaces(s) == \A i \in 1..Len(s) : s[i] = " "

\* What is left of s when spaces are taken from its two ends.
Cores(s) ==
  { SubSeq(s, ij[1], ij[2]) :
      ij \in { x \in (1..(Len(s) + 1)) \X (0..Len(s)) :
                 /\ x[1] <= x[2] + 1
                 /\ Spaces(SubSeq(s, 1, x[1] - 1))
                 /\ Spaces(SubSeq(s, x[2] + 1, Len(s))) } }

\* The texts differ only by letter case or by leading/trailing whitespace.
Variants(a, b) == \E x \in Cores(a), y \in Cores(b) : SameButCase(x, y)

RECURSIVE BackslashesBefore(_, _)
BackslashesBefore(s, i) ==
  IF i > 1 /\ s[i - 1] = Backslash THEN 1 + BackslashesBefore(s, i - 1) ELSE 0

\* C21: the message embedded in the prompt has at most 2000 (here
\* MessageLimit) characters, and each double quote in it is escaped: the
\* backslashes before it are odd in number.
PromptMessageEscaped ==
  returned.outcome.kind = "prompt" =>
    LET m == returned.outcome.message
    IN  /\ Len(m) <= MessageLimit
        /\ \A i \in 1..Len(m) :
             m[i] = Quote => BackslashesBefore(m, i) % 2 = 1

\* C22: the language embedded in the prompt has at most 50 (here
\* LanguageLimit) characters, each a letter, a space or a hyphen.
PromptLanguageAllowed ==
  returned.outcome.kind = "prompt" =>
    LET l == returned.outcome.language
    IN  /\ Len(l) <= LanguageLimit
        /\ \A i \in 1..Len(l) : l[i] \in { "e", " ", "-" }

\* C23: the reply is handled in four steps, in this order.  The strict parse
\* is of the text without fence marks; the keys are quoted only after the
\* strict parse has failed; the parse error is thrown only after the parse of
\* the repaired text has failed as well, and carries the reply's text; a
\* reply that passes the strict parse gives the result of that parse.
ParsePipelineOrdered ==
  [][\A p \in Procs :
       LET text == response[p].text
           cleaned == response[p].cleanedText
       IN  /\ pc[p] = "strictParse" =>
                /\ \A i \in 1..Len(cleaned) : cleaned[i] \notin { Fence, FenceJson }
                /\ cleaned = cleanedTextOf(text)
           /\ pc[p] = "strictParse" /\ JSONparse(cleaned).ok =>
                /\ pc'[p] = "idle"
                /\ returned'.outcome.kind = "error"
                     => returned'.outcome.error = "TypeError"
                /\ returned'.outcome.kind = "result"
                     => returned'.outcome
                          = resultFrom(JSONparse(cleaned), call[p].message)
           /\ pc[p] = "strictParse" /\ ~JSONparse(cleaned).ok =>
                pc'[p] = "repair" /\ returned' = returned
           /\ pc[p] = "repair" => ~JSONparse(cleaned).ok
           /\ pc[p] = "repair" /\ pc'[p] = "idle" =>
                IF JSONparse(quoteKeys(cleaned)).ok
                THEN returned'.outcome.kind = "error"
                       => returned'.outcome.error = "TypeError"
                ELSE returned'.outcome
                       = [ kind |-> "error", error |-> "parse", raw |-> text ]
  ]_vars

\* C23 (witness): a fenced reply failed both parses, and the error thrown
\* carries its text, fence marks included.
ParseErrorCarriesRaw ==
  /\ returned.outcome.kind = "error"
  /\ returned.outcome.error = "parse"
  /\ returned.outcome.raw = fenced(FenceJson, << "Sorry", ":", " ", "no" >>)

\* C24: a reply in code fences whose object has the three keys unquoted and
\* quoted string values is parsed after the repair, and the result carries
\* those three values and from_cache = false.
UnquotedKeysRepaired ==
  [][\A p \in Procs :
       \A open \in { Fence, FenceJson }, tm \in ParseTranslations,
          dl \in ParseLanguages :
         /\ pc[p] = "repair"
         /\ response[p].text
              = fenced(open, objectText("", call[p].message, tm, dl))
         => returned'.outcome
              = [ kind |-> "result",
                  original_message |-> call[p].message,
                  translated_message |-> tm,
                  detected_language |-> dl,
                  from_cache |-> FALSE ]
  ]_vars

\* C25: when the reply is an object without translated_message, the result
\* and the cache row carry the input message as translation; without
\* detected_language they carry "unknown"; the reply raises no error.
MissingFieldsDefaulted ==
  [][ \A p \in Procs :
        /\ ( pc[p] = "model" /\ Returns(p) )
             => \/ returned'.outcome.error = "TypeError"
                \/ returned'.outcome.raw.form = "junk"
        /\ ( /\ call[p].op = "translate"
             /\ response[p] # NoReply
             /\ response[p].value.t = "object" )
           => LET reply == response[p].value
                  translated ==
                    IF reply.translated_message = AbsentText
                    THEN call[p].message ELSE reply.translated_message
                  detected ==
                    IF reply.detected_language = Absent
                    THEN "unknown" ELSE reply.detected_language
              IN  /\ Ran(p, "saveInsert")
                       => \E r \in translation_history' \ translation_history :
                            /\ r.translated_message = translated
                            /\ r.detected_language = detected
                  /\ Ran(p, "saveUpdate")
                       => \A r \in translation_history' :
                            r.id = existing[p]
                              => /\ r.translated_message = translated
                                 /\ r.detected_language = detected
                  /\ ( Returns(p) /\ returned'.outcome.kind = "result" )
                       => /\ returned'.outcome.translated_message = translated
                          /\ returned'.outcome.detected_language = detected
                          /\ returned'.outcome.from_cache = FALSE
    ]_vars

\* C25 (witness): a translate whose reply had neither field has returned
\* the message itself and "unknown", and the cache row holds the same.
DefaultsReturnedAndCached ==
  /\ returned.call.op = "translate"
  /\ returned.outcome.kind = "result"
  /\ returned.outcome.from_cache = FALSE
  /\ returned.outcome.translated_message = returned.call.message
  /\ returned.outcome.detected_language = "unknown"
  /\ \E r \in translation_history :
       /\ r.original_message = returned.call.message
       /\ r.translated_message = returned.call.message
       /\ r.detected_language = "unknown"

\* Every link of `links` has its user among `users` and its cache row among
\* `rows`.
LinksHaveParents(links, users, rows) ==
  \A h \in links :
    /\ \E u \in users : u.id = h.discord_id
    /\ \E r \in rows : r.id = h.message_id

\* C26: before and after every step each link row references a user and a
\* cache row that exist; a step that removes a user removes the user's
\* links; a step that removes a cache row removes the links to it; the
\* attribution statements of a save remove no cache row.
LinksAlwaysReferToRows ==
  [][ /\ LinksHaveParents(history, discord_user, translation_history)
      /\ LinksHaveParents(history', discord_user', translation_history')
      /\ \A u \in discord_user :
           ( \A v \in discord_user' : v.id # u.id )
             => \A h \in history' : h.discord_id # u.id
      /\ \A r \in translation_history :
           ( \A r2 \in translation_history' : r2.id # r.id )
             => \A h \in history' : h.message_id # r.id
      /\ \A p \in Procs :
           ( pc[p] \in Attribution /\ pc'[p] # pc[p] )
             => \A r \in translation_history :
                  \E r2 \in translation_history' : r2.id = r.id
    ]_vars

\* C26 (witness): a purge has deleted cache row 2 and the link to it, while
\* the same user's link to row 1 and the user are still there.
PurgeTookLinkAlong ==
  /\ returned.call.op = "clean"
  /\ returned.outcome.affectedRows >= 1
  /\ \A r \in translation_history : r.id # 2
  /\ \A h \in history : h.message_id # 2
  /\ \E h \in history : h.discord_id = "u1" /\ h.message_id = 1
  /\ \E u \in discord_user : u.id = "u1"

\* Entry i of `log` is the deferred acknowledgment of interaction `token`.
IsAck(log, i, token) ==
  /\ log[i].kind = "response"
  /\ log[i].token = token
  /\ log[i].status = 200
  /\ log[i].type = 5
  /\ log[i].flags = 64

\* The positions of the follow-ups of interaction `token` in `log`.
FollowUpsOf(log, token) ==
  { i \in 1..Len(log) : log[i].kind = "followUp" /\ log[i].token = token }

\* Request p's call of translate throws in this step.
TranslateRaises(p) ==
  /\ interaction[p] # NoInteraction
  /\ call[p].op = "translate"
  /\ call'[p] = NoCall
  /\ returned'.outcome.kind = "error"

\* C27: the handler of an accepted command returns the deferred
\* acknowledgment (type 5, flags 64) before its background task starts; the
\* task attempts exactly one follow-up per interaction, none while it runs;
\* when translate raises, the task catches the error and its follow-up is
\* the failure notice.
AckThenOneFollowUp ==
  [][ /\ \A p \in Procs :
           /\ ( pc[p] = "dispatch" /\ pc'[p] = "timer" )
                => /\ Len(sent') = Len(sent) + 1
                   /\ IsAck(sent', Len(sent'), interaction[p].token)
           /\ pc[p] = "timer"
                => /\ \E i \in 1..Len(sent) :
                        IsAck(sent, i, interaction[p].token)
                   /\ FollowUpsOf(sent, interaction[p].token) = {}
           /\ TranslateRaises(p)
                => /\ pc'[p] = "followUp"
                   /\ interaction'[p].outcome = returned'.outcome
                   /\ sent' = sent
           /\ ( /\ pc[p] = "followUp"
                /\ pc'[p] # "followUp"
                /\ interaction[p].outcome.kind = "error" )
                => /\ pc'[p] = "idle"
                   /\ Len(sent') = Len(sent) + 1
                   /\ sent'[Len(sent')].kind = "followUp"
                   /\ sent'[Len(sent')].token = interaction[p].token
                   /\ sent'[Len(sent')].content = TranslationFailed
      /\ \A i \in 1..Len(sent') :
           /\ sent'[i].kind = "response" /\ sent'[i].type = 5
                => LET token == sent'[i].token
                       running == \E p \in Procs : interaction'[p].token = token
                   IN  /\ Cardinality(FollowUpsOf(sent', token))
                            = IF running THEN 0 ELSE 1
                       /\ \A j \in FollowUpsOf(sent', token) : i < j
           /\ sent'[i].kind = "followUp"
                => \E j \in 1..Len(sent') : IsAck(sent', j, sent'[i].token)
    ]_vars

\* C27 (witness): a command was acknowledged, a statement of the store
\* failed under its translate, and the failure notice followed the
\* acknowledgment.
FailureFollowedAck ==
  /\ returned.call.op = "translate"
  /\ returned.outcome.kind = "error"
  /\ returned.outcome.error = "store"
  /\ \E i \in 1..Len(sent) : \E j \in 1..Len(sent) :
       /\ i < j
       /\ IsAck(sent, i, sent[j].token)
       /\ sent[j].kind = "followUp"
       /\ sent[j].content = TranslationFailed
  /\ \A p \in Procs : pc[p] = "idle"

\* C28: the follow-up after a failed translate is the same fixed message
\* whatever the failure: apart from the interaction's token, nothing in it
\* depends on the error or on the reply's text.
UniformFailureNotice ==
  [][ \A p \in Procs :
        ( /\ pc[p] = "followUp"
          /\ pc'[p] = "idle"
          /\ interaction[p].outcome.kind = "error" )
        => sent' = Append(sent,
             [ kind |-> "followUp", token |-> interaction[p].token,
               request |-> Request("POST", "/webhooks", NoSignature, "", NoData),
               status |-> 0, type |-> 0, flags |-> 64,
               content |-> << "Translation failed. Please try again later." >>,
               embeds |-> NoEmbed ])
    ]_vars

\* C28 (witness): two interactions have failed, the second on a reply that
\* is no JSON, and their two follow-ups differ in the token only.
TwoFailuresSameNotice ==
  /\ returned.outcome.kind = "error"
  /\ returned.outcome.error = "parse"
  /\ \E i \in 1..Len(sent) : \E j \in 1..Len(sent) :
       /\ sent[i].kind = "followUp"
       /\ sent[j].kind = "followUp"
       /\ sent[i].token # sent[j].token
       /\ sent[i].content = TranslationFailed
       /\ sent[j] = [ sent[i] EXCEPT !.token = sent[j].token ]

\* C29: a command without its input (no or empty message text, no or empty
\* language for /translate; no resolved message for the context menu) gets
\* the missing-input follow-up; translate is not called and the store is
\* neither read nor written for it.
MissingInputNoTranslate ==
  [][ \A p \in Procs :
        ( pc[p] = "timer" /\ pc'[p] # "timer" )
        => LET data == interaction[p].data
               missing ==
                 IF interaction[p].handler = "translate_message"
                 THEN IF data.resolved.found THEN <<>>
                      ELSE << "Message not found" >>
                 ELSE IF data.options.message \in { AbsentText, <<>> }
                 THEN << "No message provided" >>
                 ELSE IF data.options.language \in { AbsentText, <<>> }
                 THEN << "No language provided" >>
                 ELSE <<>>
           IN  missing # <<>>
                 => /\ Len(sent') = Len(sent) + 1
                    /\ sent'[Len(sent')].kind = "followUp"
                    /\ sent'[Len(sent')].token = interaction[p].token
                    /\ sent'[Len(sent')].content = missing
                    /\ sent'[Len(sent')].flags = 64
                    /\ pc'[p] = "idle"
                    /\ interaction'[p] = NoInteraction
                    /\ call'[p] = NoCall
                    /\ UNCHANGED << store, returned >>
    ]_vars

\* C29 (witness): a /translate without language and a context-menu command
\* without resolved message have got their follow-ups; no translate has run
\* and the store is empty.
MissingInputsAnswered ==
  /\ \E i \in 1..Len(sent) : sent[i].content = NoLanguageProvided
  /\ \E i \in 1..Len(sent) : sent[i].content = MessageNotFound
  /\ returned.call = NoCall
  /\ translation_history = {}
  /\ \A p \in Procs : pc[p] = "idle"

\* The request carries both headers and its signature was made with
\* Discord's key over its timestamp and body.
ProperlySigned(req) ==
  /\ req.signature.form = "hex"
  /\ req.timestamp # ""
  /\ req.signature.by = "discord"
  /\ req.signature.over = << req.timestamp, req.body >>

\* The response `e` of type 1 or 5 or any later stage is only for a verified
\* request; 400 without a header, 401 for a signature that does not verify.
Gated(e) ==
  e.kind = "response" /\ e.request.method = "POST" /\ e.request.path = "/"
  => /\ e.type \in { 1, 5 } => ProperlySigned(e.request)
     /\ ( e.request.signature.form = "none" \/ e.request.timestamp = "" )
          => e.status = 400
     /\ ( /\ e.request.signature.form = "hex"
          /\ e.request.timestamp # ""
          /\ ~ProperlySigned(e.request) )
          => e.status = 401

PoolCreatedOnce ==
  [][ /\ ( pool.current = 0 /\ calls' = calls + 1 )
           => /\ returned'.outcome.kind = "error"
              /\ returned'.outcome.error = "pool not initialized"
              /\ pc' = pc
              /\ UNCHANGED << translation_history, discord_user, history,
                              nextMessageId, nextHistoryId >>
      /\ pool'.created <= 1
      /\ pool.current # 0 => pool' = pool
      /\ ( returned'.call.op = "initMySQLPool" /\ returned' # returned )
           => /\ pool'.current = 1
              /\ returned'.outcome.pool = pool'.current
    ]_vars

\* C34 (witness): every call so far was a store operation made before
\* initMySQLPool; the last one was refused and the store is untouched.
OperationsRefusedWithoutPool ==
  /\ calls = MaxCalls
  /\ pool = NoPool
  /\ returned.outcome.kind = "error"
  /\ returned.outcome.error = "pool not initialized"
  /\ translation_history = {}

\* C31: with calls one after the other, a save for a key that has a row
\* writes the new translation and detected language into that row, adds one
\* to its use_count and refreshes updated_at, and leaves its id, original
\* message, fingerprint, target language and created_at as they were; a save
\* for a key without a row inserts one row with use_count 1.  No other row
\* changes.
SaveUpsertsRow ==
  [][ \A p \in Procs :
        LET key == KeyOf(sv[p].originalMessage, sv[p].targetLanguage)
            keyed == { r \in translation_history : RowKey(r) = key }
        IN  /\ Ran(p, "saveSelect")
                 => pc'[p] = IF keyed = {} THEN "saveInsert" ELSE "saveUpdate"
            /\ Ran(p, "saveUpdate")
                 => /\ keyed # {}
                    /\ \A r \in keyed :
                         translation_history' =
                           ( translation_history \ { r } ) \cup
                           { [ id |-> r.id,
                               original_message |-> r.original_message,
                               original_message_hash |-> r.original_message_hash,
                               target_language |-> r.target_language,
                               detected_language |-> sv[p].detectedLanguage,
                               translated_message |-> sv[p].translatedMessage,
                               created_at |-> r.created_at,
                               updated_at |-> now,
                               use_count |-> r.use_count + 1 ] }
            /\ Ran(p, "saveInsert")
                 => /\ keyed = {}
                    /\ translation_history \subseteq translation_history'
                    /\ Cardinality(translation_history')
                         = Cardinality(translation_history) + 1
                    /\ \A r \in translation_history' \ translation_history :
                         /\ RowKey(r) = key
                         /\ r.use_count = 1
                         /\ r.translated_message = sv[p].translatedMessage
                         /\ r.detected_language = sv[p].detectedLanguage
    ]_vars

\* C31 (witness): a save of "Hi" has returned on the day after the row of
\* its key was written by a translate whose reply had no translation; the
\* row now holds the saved translation and counts two uses.
SavedOverExistingRow ==
  /\ returned.call.op = "save"
  /\ returned.outcome = Void
  /\ \E r \in translation_history :
       /\ r.original_message = returned.call.message
       /\ r.translated_message \in Translations
       /\ r.detected_language = "en"
       /\ r.use_count = 2
       /\ r.created_at < r.updated_at
  /\ Cardinality(translation_history) = 1

\* C32: among several rows of one key the lookup reads the row with the
\* highest use_count, the latest updated_at among equals; it returns that
\* row and adds one use to it, and every other row stays as it was.
LookupServesMostUsed ==
  [][ \A p \in Procs :
        LET key == KeyOf(call[p].message, call[p].language)
            keyed == { r \in translation_history : RowKey(r) = key }
        IN  /\ ( Ran(p, "lookupSelect") /\ keyed # {} )
                 => /\ cached'[p] \in keyed
                    /\ \A o \in keyed :
                         \/ cached'[p].use_count > o.use_count
                         \/ /\ cached'[p].use_count = o.use_count
                            /\ cached'[p].updated_at >= o.updated_at
                    /\ translation_history' = translation_history
            /\ ( call[p].op = "lookup" /\ Ran(p, "lookupUpdate") )
                 => /\ cached[p] \in translation_history
                    /\ returned'.outcome.kind = "row"
                    /\ returned'.outcome.row = cached[p]
                    /\ translation_history' =
                         ( translation_history \ { cached[p] } ) \cup
                         { [ cached[p] EXCEPT !.use_count = @ + 1,
                                              !.updated_at = now ] }
    ]_vars

\* C32 (witness): rows 1 and 2 had the same use_count and row 2 the later
\* date; the lookup has returned row 2 and counted the use on it.
TieBrokenByDate ==
  /\ returned.call.op = "lookup"
  /\ returned.outcome.kind = "row"
  /\ returned.outcome.row.id = 2
  /\ \E r1 \in translation_history : \E r2 \in translation_history :
       /\ r1.id = 1
       /\ r2.id = 2
       /\ r1.use_count = returned.outcome.row.use_count
       /\ r1.updated_at < returned.outcome.row.updated_at
       /\ r2.use_count = r1.use_count + 1

\* C36: a lookup that follows a completed save of the same key, with no
\* write in between, reads a row that holds the translation the save wrote.
ReadYourWrites ==
  [][ \A p \in Procs :
        ( /\ call[p].op = "lookup"
          /\ Ran(p, "lookupSelect")
          /\ returned.call.op = "save"
          /\ returned.outcome = Void
          /\ KeyOf(returned.call.message, returned.call.language)
               = KeyOf(call[p].message, call[p].language) )
        => /\ pc'[p] = "lookupUpdate"
           /\ cached'[p].translated_message \in Translations
    ]_vars

\* C33: when the link write of an attributed save fails after the profile
\* upsert went through, the store keeps the cache row with the saved
\* translation and the upserted profile, holds no link of that user to that
\* row, and the failed step changes no table.
LinkFailureKeepsWrites ==
  [][ \A p \in Procs :
        ( /\ pc[p] = "linkInsert"
          /\ pc'[p] # "linkInsert"
          /\ returned'.outcome = StoreError("linkInsert") )
        => /\ translation_history' = translation_history
           /\ discord_user' = discord_user
           /\ history' = history
           /\ \E r \in translation_history' :
                /\ r.id = LinkTarget(p)
                /\ RowKey(r) = KeyOf(sv[p].originalMessage, sv[p].targetLanguage)
                /\ r.translated_message = sv[p].translatedMessage
           /\ [ id |-> sv[p].discordId, username |-> sv[p].username ]
                \in discord_user'
           /\ \A h \in history' :
                ~ ( h.discord_id = sv[p].discordId
                    /\ h.message_id = LinkTarget(p) )
    ]_vars

\* C33 witness: a save for "u1"/"ann" has failed at its link write; the cache
\* row and the profile are in the store and the user has no link.
LinkWriteFailedAfterProfile ==
  /\ returned.call.op = "save"
  /\ returned.outcome = StoreError("linkInsert")
  /\ returned.call.discordId = "u1"
  /\ \E r \in translation_history :
       RowKey(r) = KeyOf(returned.call.message, returned.call.language)
  /\ [ id |-> "u1", username |-> "ann" ] \in discord_user
  /\ history = {}

\* C35: a translate that returns from_cache = TRUE leaves the row it returns
\* in the store, with the use_count that call has raised by one.
CachedAnswerKeptAndCounted ==
  [][ \A p \in Procs :
        ( /\ call[p].op = "translate"
          /\ pc[p] = "lookupUpdate"
          /\ Returns(p)
          /\ returned'.outcome.kind = "result"
          /\ returned'.outcome.from_cache )
        => \E r \in translation_history' :
             /\ r.id = cached[p].id
             /\ \E o \in translation_history :
                  o.id = r.id /\ r.use_count = o.use_count + 1
    ]_vars

\* C37: a signed command interaction that names a registered command is
\* answered with the deferred acknowledgment and handed to a command handler;
\* one that names any other command is answered with 404 and starts no
\* handler.
RegisteredCommandsOnly ==
  [][ \A p \in Procs :
        ( /\ pc[p] = "dispatch"
          /\ pc'[p] # "dispatch"
          /\ interaction[p].data.type = 2 )
        => IF interaction[p].data.name \in commands
           THEN /\ pc'[p] = "timer"
                /\ interaction'[p].handler \in { "translate_message", "translate" }
                /\ sent'[Len(sent')].status = 200
           ELSE /\ pc'[p] = "idle"
                /\ Len(sent') = Len(sent) + 1
                /\ sent'[Len(sent')].status = 404
    ]_vars

====
